---- MODULE Spec2Model ----
(***************************************************************************)
(* A model of the search and indexing core of paper-index-tool:            *)
(*   - TextChunker (vector/chunking.py)                                    *)
(*   - extract_fragments, BaseSearcher, CombinedSearcher (search.py)       *)
(*   - VectorIndexRegistry (vector/registry.py), VectorSearcher            *)
(*     (vector/search.py)                                                  *)
(* Each subsystem has its own specification over the shared variables:     *)
(* SpecChunk, SpecFrag, SpecLex and Spec (the named vector indices).       *)
(***************************************************************************)
EXTENDS Integers, Sequences, FiniteSets, TLC

VARIABLES
    call,        \* the last call of a pure function: its inputs and its result
    collection,  \* the record store: <<entry_type, id>> -> searchable text or Absent
    registryOk,  \* entry_type -> whether that collection's registry JSON parses
    lexIndex,    \* entry_type -> the persisted BM25 corpus, or Absent
    lexOut,      \* the outcome of the last lexical search
    indices,     \* the registry file indices.json: name -> metadata, or no entry
    metaFile,    \* name -> the metadata.json of the index directory, or no file
    chunksFile,  \* name -> the persisted chunk list (chunks.json), or no file
    faissFile,   \* name -> the persisted vector artifact (one row per chunk), or no file
    cache,       \* name -> the (index, chunks) a VectorSearcher holds in memory, or nothing
    searcher,    \* name -> the model arguments a VectorSearcher was constructed with
                 \* and the embeddings client it holds, or nothing
    vecOut,      \* the outcome of the last operation on the named indices
    removed      \* history: name -> the entry ids remove_entry_from_index took out of
                 \* the index and nothing has put in it since

vars == <<call, collection, registryOk, lexIndex, lexOut,
          indices, metaFile, chunksFile, faissFile, cache, searcher, vecOut, removed>>

lexVars == <<collection, registryOk, lexIndex, lexOut>>
vecVars == <<indices, metaFile, chunksFile, faissFile, cache, searcher, vecOut, removed>>

Absent == "absent"
None == "none"

Min(a, b) == IF a < b THEN a ELSE b
Max(a, b) == IF a > b THEN a ELSE b

SetMin(S) == CHOOSE x \in S : \A y \in S : x <= y
SetMax(S) == CHOOSE x \in S : \A y \in S : x >= y

\* Python's seq[lo:hi] for 0 <= lo, 0 <= hi (0-based, hi exclusive, clamped).
Slice(seq, lo, hi) ==
    LET h == Min(hi, Len(seq))
    IN  IF lo >= h THEN <<>> ELSE [i \in 1..(h - lo) |-> seq[lo + i]]

Range(seq) == {seq[i] : i \in 1..Len(seq)}

(***************************************************************************)
(* TextChunker                                                             *)
(***************************************************************************)

\* vector/chunking.py: module defaults
DEFAULT_CHUNK_SIZE == 300
DEFAULT_OVERLAP == 50
MIN_CHUNK_SIZE == 100

\* Bounds of the chunker's inputs.
MaxLines == 2          \* lines of a text
MaxLineWords == 2      \* words on a line (after its page marker is stripped)
MaxPage == 2           \* [PAGE:N] markers carry N in 1..MaxPage
MaxChunkSize == 3      \* chunk_size in 1..MaxChunkSize
MaxOverlap == 2        \* overlap in 0..MaxOverlap
MaxMinChunk == 2       \* min_chunk_size in 0..MaxMinChunk

\* Python's None for a page and for a section (pages and sections are numbers).
NoPage == -1
NoSection == 0

\* A line of text: the page of its first [PAGE:N] marker, the one
\* PAGE_PATTERN.search(line) finds (NoPage: the line has none), the page of its
\* last marker, the section its "## title" header names (NoSection: the line is
\* no header) and the number of words line.split() yields once every marker is
\* removed.
Line(page, section, nwords) ==
    [page |-> page, last_page |-> page, section |-> section, nwords |-> nwords]

\* A line with two markers, "[PAGE:first] w [PAGE:last]".
TwoMarkerLine(first, last, nwords) ==
    [page |-> first, last_page |-> last, section |-> NoSection, nwords |-> nwords]

ChunkerLines == {Line(p, NoSection, n) : p \in {NoPage} \cup 1..MaxPage, n \in 0..MaxLineWords}
                \cup {Line(NoPage, 1, 2), TwoMarkerLine(1, 2, 1)}

RECURSIVE SeqsUpTo(_, _)
SeqsUpTo(S, n) ==
    IF n = 0 THEN {<<>>}
    ELSE LET shorter == SeqsUpTo(S, n - 1)
         IN  shorter \cup {Append(s, x) : s \in {t \in shorter : Len(t) = n - 1}, x \in S}

ChunkerTexts == SeqsUpTo(ChunkerLines, MaxLines)

ChunkerConfigs ==
    [chunk_size : 1..MaxChunkSize, overlap : 0..MaxOverlap, min_chunk_size : 0..MaxMinChunk]

\* TextChunker._annotate_lines: each line with the page and section in force.
RECURSIVE AnnotateFrom(_, _, _, _)
AnnotateFrom(lines, line_num, current_page, current_section) ==
    IF line_num > Len(lines) THEN <<>>
    ELSE LET line == lines[line_num]
             page == IF line.page # NoPage THEN line.page ELSE current_page
             section == IF line.section # NoSection THEN line.section ELSE current_section
         IN  <<[line_num |-> line_num, nwords |-> line.nwords,
                page |-> page, section |-> section]>>
             \o AnnotateFrom(lines, line_num + 1, page, section)

annotate_lines(lines) == AnnotateFrom(lines, 1, NoPage, NoSection)

\* The word stream of _create_chunks: one record per word, in document order.
\* A word is identified by its position in the stream.
RECURSIVE WordsFrom(_, _, _)
WordsFrom(annotated, k, base) ==
    IF k > Len(annotated) THEN <<>>
    ELSE LET a == annotated[k]
         IN  [i \in 1..a.nwords |->
                 [word |-> base + i, line_num |-> a.line_num,
                  page |-> a.page, section |-> a.section]]
             \o WordsFrom(annotated, k + 1, base + a.nwords)

words_with_meta(annotated) == WordsFrom(annotated, 1, 0)

\* The step of the sliding window: start_idx += self.chunk_size - self.overlap.
WindowStepIgnoresOverlap(cfg) == cfg.chunk_size
WindowStep(cfg) == cfg.chunk_size - cfg.overlap

\* chunk_index += 1
NextChunkIndexSkips(chunk_index) == chunk_index + 2
NextChunkIndex(chunk_index) == chunk_index + 1

\* The chunk cut from words[start_idx:end_idx].
MakeChunk(chunk_words, entry_id, entry_type, chunk_index) ==
    LET pages == {chunk_words[i].page : i \in 1..Len(chunk_words)} \ {NoPage}
        sections == SelectSeq([i \in 1..Len(chunk_words) |-> chunk_words[i].section],
                              LAMBDA s : s # NoSection)
        line_nums == {chunk_words[i].line_num : i \in 1..Len(chunk_words)}
    IN  [entry_id |-> entry_id,
         entry_type |-> entry_type,
         chunk_index |-> chunk_index,
         text |-> [i \in 1..Len(chunk_words) |-> chunk_words[i].word],
         page_start |-> IF pages # {} THEN SetMin(pages) ELSE NoPage,
         page_end |-> IF pages # {} THEN SetMax(pages) ELSE NoPage,
         section |-> IF sections # <<>> THEN sections[1] ELSE NoSection,
         line_start |-> SetMin(line_nums),
         line_end |-> SetMax(line_nums)]

\* The while loop of TextChunker._create_chunks.
RECURSIVE ChunkLoop(_, _, _, _, _, _, _)
ChunkLoop(words, cfg, entry_id, entry_type, start_idx, chunk_index, chunks) ==
    IF ~(start_idx < Len(words)) THEN chunks
    ELSE LET end_idx == Min(start_idx + cfg.chunk_size, Len(words))
             chunk_words == Slice(words, start_idx, end_idx)
         IN  IF Len(chunk_words) < cfg.min_chunk_size /\ chunks # <<>> THEN chunks
             ELSE LET out == Append(chunks,
                                    MakeChunk(chunk_words, entry_id, entry_type, chunk_index))
                      next == start_idx + WindowStep(cfg)
                  IN  IF next <= 0 THEN out
                      ELSE ChunkLoop(words, cfg, entry_id, entry_type,
                                     next, NextChunkIndex(chunk_index), out)

create_chunks(annotated, cfg, entry_id, entry_type) ==
    LET words == words_with_meta(annotated)
    IN  IF words = <<>> THEN <<>>
        ELSE ChunkLoop(words, cfg, entry_id, entry_type, 0, 0, <<>>)

\* TextChunker.chunk_text. A text with no word at all is empty or blank, or holds
\* only page markers: both ways the result is [].
chunk_text(cfg, text, entry_id, entry_type) ==
    create_chunks(annotate_lines(text), cfg, entry_id, entry_type)

\* The number of words of a text.
RECURSIVE WordCount(_)
WordCount(text) == IF text = <<>> THEN 0 ELSE Head(text).nwords + WordCount(Tail(text))

Idle == [op |-> "idle"]

InitRest ==
    /\ collection = <<>>
    /\ registryOk = <<>>
    /\ lexIndex = <<>>
    /\ lexOut = None
    /\ indices = <<>>
    /\ metaFile = <<>>
    /\ chunksFile = <<>>
    /\ faissFile = <<>>
    /\ cache = <<>>
    /\ searcher = <<>>
    /\ vecOut = None
    /\ removed = <<>>

InitChunk == call = Idle /\ InitRest

ChunkText ==
    /\ call = Idle
    /\ \E cfg \in ChunkerConfigs, text \in ChunkerTexts :
          call' = [op |-> "chunk_text", cfg |-> cfg, text |-> text,
                   ret |-> chunk_text(cfg, text, "e", "paper")]
    /\ UNCHANGED <<lexVars, vecVars>>

NextChunk == ChunkText

SpecChunk == InitChunk /\ [][NextChunk]_vars

ChunkCalled == call.op = "chunk_text"

\* The position in the word stream (0-based) at which a chunk starts.
ChunkStart(chunk) == chunk.text[1] - 1

\* C4: the chunks chunk_text returns carry chunk_index 0, 1, ..., N-1 in that
\* order, and they are in document order: each starts after the one before.
C4_ChunkIndexContiguous ==
    ChunkCalled =>
        /\ \A i \in 1..Len(call.ret) : call.ret[i].chunk_index = i - 1
        /\ \A i \in 1..(Len(call.ret) - 1) :
               ChunkStart(call.ret[i]) < ChunkStart(call.ret[i + 1])

C4_Witness ==
    /\ ChunkCalled
    /\ Len(call.ret) >= 3
    /\ call.ret[3].chunk_index = 2

\* C5 as claimed: with chunk_size > overlap and a text that has words, every
\* word of the text is in some chunk, and a text with fewer words than
\* min_chunk_size yields exactly one chunk that holds them all.
C5_ChunksCoverAllWords ==
    (ChunkCalled /\ WordCount(call.text) > 0 /\ call.cfg.chunk_size > call.cfg.overlap) =>
        /\ UNION {Range(call.ret[i].text) : i \in 1..Len(call.ret)} = 1..WordCount(call.text)
        /\ WordCount(call.text) < call.cfg.min_chunk_size =>
               /\ Len(call.ret) = 1
               /\ call.ret[1].text = [i \in 1..WordCount(call.text) |-> i]

\* C6: with chunk_size > overlap, each chunk starts exactly chunk_size - overlap
\* words after the chunk before it, and the two share at most overlap words.
C6_WindowAdvance ==
    (ChunkCalled /\ call.cfg.chunk_size > call.cfg.overlap) =>
        \A i \in 1..(Len(call.ret) - 1) :
            /\ ChunkStart(call.ret[i + 1]) =
                   ChunkStart(call.ret[i]) + call.cfg.chunk_size - call.cfg.overlap
            /\ Cardinality(Range(call.ret[i].text) \cap Range(call.ret[i + 1].text))
                   <= call.cfg.overlap

C6_Witness ==
    /\ ChunkCalled
    /\ call.cfg.chunk_size = 3
    /\ call.cfg.overlap = 1
    /\ Len(call.ret) >= 2
    /\ Cardinality(Range(call.ret[1].text) \cap Range(call.ret[2].text)) = 1

(***************************************************************************)
(* extract_fragments                                                       *)
(***************************************************************************)

\* Bounds of extract_fragments' inputs.
MaxFragLines == 5      \* lines of content
MaxContext == 2        \* context_lines in 0..MaxContext
MaxFragments == 3      \* max_fragments in 0..MaxFragments

\* A content line is the set of query terms that occur in it (case folded):
\* `term in line_lower` is membership.
Terms == {"x", "y"}
FragContents == SeqsUpTo(SUBSET Terms, MaxFragLines)
FragQueries == {<<>>, <<"x">>, <<"x", "y">>}

\* The 0-based indices of the lines that contain any query term, ascending.
RECURSIVE SortedAscending(_)
SortedAscending(S) ==
    IF S = {} THEN <<>> ELSE <<SetMin(S)>> \o SortedAscending(S \ {SetMin(S)})

matched_lines(lines, query_terms) ==
    {i \in 0..(Len(lines) - 1) : \E t \in Range(query_terms) : t \in lines[i + 1]}

\* The merge test: the new window starts inside or right after the open fragment.
TouchesOverlapOnly(start, current_end) == start <= current_end
Touches(start, current_end) == start <= current_end + 1

NewFragment(lines, start, end, match_idx) ==
    [line_start |-> start + 1,
     line_end |-> end + 1,
     lines |-> Slice(lines, start, end + 1),
     matched_line_numbers |-> <<match_idx + 1>>]

\* The for loop over sorted_matches. current is <<>> (None) or <<fragment>>.
\* The result is the loop's final (fragments, current_fragment).
RECURSIVE FragLoop(_, _, _, _, _, _, _)
FragLoop(lines, sorted_matches, k, context_lines, max_fragments, fragments, current) ==
    IF k > Len(sorted_matches) THEN [fragments |-> fragments, current |-> current]
    ELSE LET match_idx == sorted_matches[k]
             start == Max(0, match_idx - context_lines)
             end == Min(Len(lines) - 1, match_idx + context_lines)
         IN  IF current = <<>>
             THEN FragLoop(lines, sorted_matches, k + 1, context_lines, max_fragments,
                           fragments, <<NewFragment(lines, start, end, match_idx)>>)
             ELSE LET cur == current[1]
                      current_end == cur.line_end - 1
                  IN  IF Touches(start, current_end)
                      THEN LET new_end == Max(current_end, end)
                               extended ==
                                   [cur EXCEPT
                                      !.line_end = new_end + 1,
                                      !.lines = Slice(lines, cur.line_start - 1, new_end + 1),
                                      !.matched_line_numbers = Append(@, match_idx + 1)]
                           IN  FragLoop(lines, sorted_matches, k + 1, context_lines,
                                        max_fragments, fragments, <<extended>>)
                      ELSE LET closed == Append(fragments, cur)
                           IN  IF Len(closed) >= max_fragments
                               THEN [fragments |-> closed, current |-> current]
                               ELSE FragLoop(lines, sorted_matches, k + 1, context_lines,
                                             max_fragments, closed,
                                             <<NewFragment(lines, start, end, match_idx)>>)

extract_fragments(lines, query_terms, context_lines, max_fragments) ==
    IF lines = <<>> \/ query_terms = <<>> THEN <<>>
    ELSE LET matched == matched_lines(lines, query_terms)
         IN  IF matched = {} THEN <<>>
             ELSE LET end == FragLoop(lines, SortedAscending(matched), 1, context_lines,
                                      max_fragments, <<>>, <<>>)
                  IN  IF end.current # <<>> /\ Len(end.fragments) < max_fragments
                      THEN Append(end.fragments, end.current[1])
                      ELSE end.fragments

InitFrag == call = Idle /\ InitRest

ExtractFragments ==
    /\ call = Idle
    /\ \E content \in FragContents, query \in FragQueries,
          context_lines \in 0..MaxContext, max_fragments \in 0..MaxFragments :
          call' = [op |-> "extract_fragments", content |-> content, query |-> query,
                   context_lines |-> context_lines, max_fragments |-> max_fragments,
                   ret |-> extract_fragments(content, query, context_lines, max_fragments)]
    /\ UNCHANGED <<lexVars, vecVars>>

NextFrag == ExtractFragments

SpecFrag == InitFrag /\ [][NextFrag]_vars

FragCalled == call.op = "extract_fragments"

\* C7: the fragments extract_fragments returns are in ascending line order and
\* no two of them overlap or touch: each starts at least two lines after the
\* one before it ends. Matches on lines 2 and 4 with context_lines = 1 (and at
\* least five lines) give the single fragment [1,5].
C7_FragmentsMerged ==
    FragCalled =>
        /\ \A i \in 1..(Len(call.ret) - 1) :
              call.ret[i + 1].line_start >= call.ret[i].line_end + 2
        /\ \A i \in 1..Len(call.ret) : call.ret[i].line_start <= call.ret[i].line_end
        /\ (/\ matched_lines(call.content, call.query) = {1, 3}
            /\ Len(call.content) >= 5
            /\ call.context_lines = 1
            /\ call.max_fragments >= 1)
           => (/\ Len(call.ret) = 1
               /\ call.ret[1].line_start = 1
               /\ call.ret[1].line_end = 5
               /\ call.ret[1].matched_line_numbers = <<2, 4>>)

C7_Witness ==
    /\ FragCalled
    /\ matched_lines(call.content, call.query) = {1, 3}
    /\ Len(call.content) = 5
    /\ call.context_lines = 1
    /\ call.max_fragments = 2
    /\ Len(call.ret) = 1
    /\ call.ret[1].line_end = 5

\* The merged windows of a call when nothing caps them.
AllWindows ==
    extract_fragments(call.content, call.query, call.context_lines, Len(call.content) + 1)

\* C8 as claimed: for every max_fragments >= 0 the result has at most
\* max_fragments fragments, and it is exactly the first min(max_fragments, W)
\* of the W merged windows.
C8_FragmentCap ==
    FragCalled =>
        /\ Len(call.ret) <= call.max_fragments
        /\ call.ret = Slice(AllWindows, 0, Min(call.max_fragments, Len(AllWindows)))

(***************************************************************************)
(* The record store, BaseSearcher and CombinedSearcher                     *)
(***************************************************************************)

PAPER == "paper"
BOOK == "book"
MEDIA == "media"
EntryTypes == {PAPER, BOOK, MEDIA}

\* The entries that may exist, as <<entry_type, id>>.
EntryKeys == {<<PAPER, "a">>, <<PAPER, "b">>, <<BOOK, "c">>, <<MEDIA, "d">>}
KeysOf(t) == {k \in EntryKeys : k[1] = t}

\* What get_searchable_text() of an entry returns, by name.
EmptyText == "empty"
ShortText == "short"
LexTexts == {EmptyText, ShortText}

\* Bounds of the lexical searches.
MaxTopK == 2           \* top_k in 0..MaxTopK

\* The injected ranker: the BM25 score of an entry's document for a query.
Queries == {"q1", "q2"}
Score(query, id) ==
    IF query = "q1"
    THEN CASE id = "a" -> 2 [] id = "b" -> 3 [] id = "c" -> 1 [] OTHER -> 0
    ELSE CASE id = "d" -> 2 [] OTHER -> 1

\* The state of a persisted BM25 index: no directory, or a saved corpus of
\* {id, content} documents.
NoIndex == [state |-> "absent", corpus |-> <<>>]
SavedIndex(corpus) == [state |-> "saved", corpus |-> corpus]

\* Exceptions, by class.
ValueError == "ValueError"
RegistryCorruptedError == "RegistryCorruptedError"

Returned(value) == [raised |-> None, value |-> value]
Raised(error) == [raised |-> error, value |-> <<>>]

\* The ids of a collection in sorted order (the ids of a type are letters in
\* alphabetical order of EntryKeys).
IdOrder == <<"a", "b", "c", "d">>
SortedIds(S) == SelectSeq(IdOrder, LAMBDA id : id \in S)

\* BaseRegistry.list_entries: the entries of a collection sorted by id.
list_entries(coll, ok, t) ==
    IF ~ok[t] THEN Raised(RegistryCorruptedError)
    ELSE Returned(SortedIds({k[2] : k \in {k \in KeysOf(t) : coll[k] # Absent}}))

\* BaseRegistry.get_entry: the entry, or None.
get_entry(coll, ok, t, id) ==
    IF ~ok[t] THEN Raised(RegistryCorruptedError)
    ELSE Returned(IF <<t, id>> \in EntryKeys /\ coll[<<t, id>>] # Absent
                  THEN <<id>> ELSE <<>>)

\* BaseSearcher.rebuild_index: the outcome (the count, or the exception) and
\* the persisted index afterwards.
rebuild_index(coll, ok, index, t) ==
    LET entries == list_entries(coll, ok, t)
    IN  IF entries.raised # None THEN [out |-> entries, index |-> index]
        ELSE IF entries.value = <<>> THEN [out |-> Returned(0), index |-> index]
        ELSE LET with_text == SelectSeq(entries.value,
                                        LAMBDA id : coll[<<t, id>>] # EmptyText)
                 corpus == [i \in 1..Len(with_text) |->
                               [id |-> with_text[i], content |-> coll[<<t, with_text[i]>>]]]
             IN  IF corpus = <<>> THEN [out |-> Returned(0), index |-> index]
                 ELSE [out |-> Returned(Len(corpus)), index |-> SavedIndex(corpus)]

\* BaseSearcher._load_index by a searcher that holds nothing in memory.
load_index(index) ==
    IF index.state = "saved" THEN Returned(index.corpus) ELSE Raised(ValueError)

\* Sorting by descending score, stable: list.sort(key=score, reverse=True).
RECURSIVE SortByScore(_)
SortByScore(results) ==
    IF results = <<>> THEN <<>>
    ELSE LET best == SetMax({results[i].score : i \in 1..Len(results)})
             first == SetMin({i \in 1..Len(results) : results[i].score = best})
         IN  <<results[first]>>
             \o SortByScore(SubSeq(results, 1, first - 1)
                            \o SubSeq(results, first + 1, Len(results)))

\* bm25s retrieve(k): the k best documents of the corpus, best first.
retrieve(corpus, query, k) ==
    Slice(SortByScore([i \in 1..Len(corpus) |->
                          [entry_id |-> corpus[i].id, score |-> Score(query, corpus[i].id)]]),
          0, k)

\* The results loop of BaseSearcher.search: positive scores only; each result
\* reads its entry from the registry.
RECURSIVE BuildResults(_, _, _, _)
BuildResults(coll, ok, t, retrieved) ==
    IF retrieved = <<>> THEN Returned(<<>>)
    ELSE IF Head(retrieved).score <= 0 THEN BuildResults(coll, ok, t, Tail(retrieved))
    ELSE LET entry == get_entry(coll, ok, t, Head(retrieved).entry_id)
         IN  IF entry.raised # None THEN entry
             ELSE LET rest == BuildResults(coll, ok, t, Tail(retrieved))
                  IN  IF rest.raised # None THEN rest
                      ELSE Returned(<<[entry_id |-> Head(retrieved).entry_id,
                                       score |-> Head(retrieved).score,
                                       entry_type |-> t,
                                       resolved |-> entry.value # <<>>]>>
                                    \o rest.value)

\* bm25s.BM25.load inside _load_index: the files of an index directory are read
\* (readable) or the read fails, which _load_index turns into a ValueError.
load_unchecked(index, readable) == load_index(index)
load_from_disk(index, readable) ==
    IF readable THEN load_index(index) ELSE Raised(ValueError)

\* BaseSearcher.search without entry_id: the outcome, the index afterwards and
\* the number of rebuild_index calls it made.
searcher_search_on(coll, ok, index, t, query, top_k, readable) ==
    LET first == load_from_disk(index, readable)
        rebuilt == rebuild_index(coll, ok, index, t)
        ranked(corpus, ix, n) ==
            LET actual_k == Min(top_k, Len(corpus))
            IN  IF actual_k = 0 THEN [out |-> Returned(<<>>), index |-> ix, rebuilds |-> n]
                ELSE [out |-> BuildResults(coll, ok, t, retrieve(corpus, query, actual_k)),
                      index |-> ix, rebuilds |-> n]
    IN  IF first.raised = None THEN ranked(first.value, index, 0)
        ELSE IF rebuilt.out.raised # None
        THEN [out |-> rebuilt.out, index |-> rebuilt.index, rebuilds |-> 1]
        ELSE IF rebuilt.out.value = 0
        THEN [out |-> Returned(<<>>), index |-> rebuilt.index, rebuilds |-> 1]
        ELSE LET second == load_from_disk(rebuilt.index, readable)
             IN  IF second.raised # None
                 THEN [out |-> second, index |-> rebuilt.index, rebuilds |-> 1]
                 ELSE ranked(second.value, rebuilt.index, 1)

\* The same with index files that can be read.
searcher_search(coll, ok, index, t, query, top_k) ==
    searcher_search_on(coll, ok, index, t, query, top_k, TRUE)

\* BaseSearcher.search, "if entry_id:": an entry_id of None or "" counts as
\* not given.
entry_id_ignored(entry_id) == FALSE
entry_id_given(entry_id) == entry_id # None /\ entry_id # ""

\* The score of the single-document ranking pass: positive when the query
\* matches the entry's text.
single_score(query, id) == IF Score(query, id) > 0 THEN 1 ELSE 0

\* BaseSearcher._search_single_entry
search_single_entry(coll, ok, t, query, entry_id) ==
    LET entry == get_entry(coll, ok, t, entry_id)
    IN  IF entry.raised # None THEN entry
        ELSE IF entry.value = <<>> THEN Raised(ValueError)
        ELSE IF coll[<<t, entry_id>>] = EmptyText THEN Returned(<<>>)
        ELSE IF single_score(query, entry_id) <= 0 THEN Returned(<<>>)
        ELSE Returned(<<[entry_id |-> entry_id, score |-> single_score(query, entry_id),
                         entry_type |-> t, resolved |-> TRUE]>>)

\* BaseSearcher.search: the outcome, the index afterwards and whether
\* _load_index was called.
lex_search(coll, ok, index, t, query, entry_id, top_k, readable) ==
    IF entry_id_given(entry_id)
    THEN [out |-> search_single_entry(coll, ok, t, query, entry_id), index |-> index,
          loaded |-> FALSE, rebuilds |-> 0]
    ELSE LET all == searcher_search_on(coll, ok, index, t, query, top_k, readable)
         IN  [out |-> all.out, index |-> all.index, loaded |-> TRUE,
              rebuilds |-> all.rebuilds]

\* The exceptions CombinedSearcher.search catches around each collection.
Caught(error) == error = ValueError

\* all_results[:top_k]
TruncateNever(results, top_k) == results
Truncate(results, top_k) == Slice(results, 0, top_k)

\* CombinedSearcher.search: papers, then books, then media. The result holds
\* the outcome, the indices afterwards and what each collection's search gave.
TypeOrder == <<PAPER, BOOK, MEDIA>>

RECURSIVE CombinedLoop(_, _, _, _, _, _, _, _, _)
CombinedLoop(coll, ok, index, query, top_k, entry_types, k, all_results, per) ==
    IF k > Len(TypeOrder)
    THEN [out |-> Returned(Truncate(SortByScore(all_results), top_k)),
          index |-> index, per |-> per]
    ELSE LET t == TypeOrder[k]
         IN  IF t \notin entry_types
             THEN CombinedLoop(coll, ok, index, query, top_k, entry_types, k + 1,
                               all_results, per)
             ELSE LET one == searcher_search(coll, ok, index[t], t, query, top_k)
                      index2 == [index EXCEPT ![t] = one.index]
                      per2 == [per EXCEPT ![t] = one.out]
                  IN  IF one.out.raised = None
                      THEN CombinedLoop(coll, ok, index2, query, top_k, entry_types, k + 1,
                                        all_results \o one.out.value, per2)
                      ELSE IF Caught(one.out.raised)
                      THEN CombinedLoop(coll, ok, index2, query, top_k, entry_types, k + 1,
                                        all_results, per2)
                      ELSE [out |-> one.out, index |-> index2, per |-> per2]

NotSearched == [raised |-> "not searched", value |-> <<>>]

combined_search(coll, ok, index, query, top_k, entry_types) ==
    CombinedLoop(coll, ok, index, query, top_k, entry_types, 1, <<>>,
                 [t \in EntryTypes |-> NotSearched])

\* The registries a search may meet: at most one of them does not parse.
RegistryStates ==
    {ok \in [EntryTypes -> BOOLEAN] : Cardinality({t \in EntryTypes : ~ok[t]}) <= 1}

InitLex ==
    /\ call = Idle
    /\ collection = [k \in EntryKeys |-> Absent]
    /\ registryOk = [t \in EntryTypes |-> TRUE]
    /\ lexIndex = [t \in EntryTypes |-> NoIndex]
    /\ lexOut = Idle
    /\ indices = <<>>
    /\ metaFile = <<>>
    /\ chunksFile = <<>>
    /\ faissFile = <<>>
    /\ cache = <<>>
    /\ searcher = <<>>
    /\ vecOut = None
    /\ removed = <<>>

\* BaseRegistry.add_entry
AddEntry(k, text) ==
    /\ lexOut = Idle
    /\ registryOk[k[1]]
    /\ collection[k] = Absent
    /\ collection' = [collection EXCEPT ![k] = text]
    /\ UNCHANGED <<call, registryOk, lexIndex, lexOut, vecVars>>

\* BaseRegistry.delete_entry
DeleteEntry(k) ==
    /\ lexOut = Idle
    /\ registryOk[k[1]]
    /\ collection[k] # Absent
    /\ collection' = [collection EXCEPT ![k] = Absent]
    /\ UNCHANGED <<call, registryOk, lexIndex, lexOut, vecVars>>

\* The environment: a registry file is damaged (its JSON no longer parses) or
\* repaired by hand.
DamageRegistry(t) ==
    /\ lexOut = Idle
    /\ registryOk[t]
    /\ [registryOk EXCEPT ![t] = FALSE] \in RegistryStates
    /\ registryOk' = [registryOk EXCEPT ![t] = FALSE]
    /\ UNCHANGED <<call, collection, lexIndex, lexOut, vecVars>>

RepairRegistry(t) ==
    /\ lexOut = Idle
    /\ ~registryOk[t]
    /\ registryOk' = [registryOk EXCEPT ![t] = TRUE]
    /\ UNCHANGED <<call, collection, lexIndex, lexOut, vecVars>>

\* BaseSearcher.rebuild_index on one collection.
RebuildLexIndex(t) ==
    /\ lexOut = Idle
    /\ \E r \in {rebuild_index(collection, registryOk, lexIndex[t], t)} :
           /\ lexIndex' = [lexIndex EXCEPT ![t] = r.index]
           /\ lexOut' = [op |-> "rebuild_index", entry_type |-> t, out |-> r.out]
    /\ UNCHANGED <<call, collection, registryOk, vecVars>>

\* What BaseSearcher.search is given as entry_id: nothing, the empty string,
\* the id of a paper and the id of a media entry.
SearchEntryIds == {None, "", "a", "d"}

\* BaseSearcher.search on one collection.
LexSearch(t, query, entry_id, top_k, readable) ==
    /\ lexOut = Idle
    /\ \E r \in {lex_search(collection, registryOk, lexIndex[t], t, query, entry_id, top_k,
                            readable)} :
           /\ lexIndex' = [lexIndex EXCEPT ![t] = r.index]
           /\ lexOut' = [op |-> "search", entry_type |-> t, query |-> query,
                         entry_id |-> entry_id, top_k |-> top_k, out |-> r.out,
                         loaded |-> r.loaded, readable |-> readable,
                         rebuilds |-> r.rebuilds]
    /\ UNCHANGED <<call, collection, registryOk, vecVars>>

\* CombinedSearcher.search (entry_types None is all three types).
CombinedSearch ==
    /\ lexOut = Idle
    /\ \E query \in Queries, top_k \in 0..MaxTopK, entry_types \in SUBSET EntryTypes :
          LET r == combined_search(collection, registryOk, lexIndex,
                                   query, top_k, entry_types)
          IN  /\ lexIndex' = r.index
              /\ lexOut' = [op |-> "combined_search", query |-> query, top_k |-> top_k,
                            entry_types |-> entry_types, out |-> r.out, per |-> r.per]
    /\ UNCHANGED <<call, collection, registryOk, vecVars>>

\* The caller takes the outcome of the call.
LexReturn ==
    /\ lexOut # Idle
    /\ lexOut' = Idle
    /\ UNCHANGED <<call, collection, registryOk, lexIndex, vecVars>>

NextLex ==
    \/ \E k \in EntryKeys, text \in LexTexts : AddEntry(k, text)
    \/ \E k \in EntryKeys : DeleteEntry(k)
    \/ \E t \in EntryTypes : DamageRegistry(t)
    \/ \E t \in EntryTypes : RepairRegistry(t)
    \/ \E t \in EntryTypes : RebuildLexIndex(t)
    \/ \E t \in EntryTypes, query \in Queries, entry_id \in SearchEntryIds, top_k \in 1..MaxTopK,
          readable \in BOOLEAN :
          LexSearch(t, query, entry_id, top_k, readable)
    \/ CombinedSearch
    \/ LexReturn

SpecLex == InitLex /\ [][NextLex]_vars

CombinedCalled == lexOut.op = "combined_search"

\* C9 as claimed: CombinedSearcher.search never propagates the failure of one
\* collection's search: whatever state the collections are in, the call returns.
C9_FailureNeverPropagates ==
    CombinedCalled => lexOut.out.raised = None

\* The results the requested collections gave, papers first.
RECURSIVE UnionOfPer(_)
UnionOfPer(k) ==
    IF k > Len(TypeOrder) THEN <<>>
    ELSE (IF TypeOrder[k] \in lexOut.entry_types /\ lexOut.per[TypeOrder[k]].raised = None
          THEN lexOut.per[TypeOrder[k]].value ELSE <<>>)
         \o UnionOfPer(k + 1)

\* The documents of a collection's index with a positive score for the query.
PositiveDocs(t) ==
    {i \in 1..Len(lexIndex[t].corpus) : Score(lexOut.query, lexIndex[t].corpus[i].id) > 0}

\* C10: a CombinedSearcher.search that returns queried each requested
\* collection with the same top_k (each gave its top_k best positive-score
\* documents) and no other collection; its result is the top_k best of the
\* union of those results, in descending score order, and holds no result of a
\* type that was not requested.
C10_CombinedTopK ==
    (CombinedCalled /\ lexOut.out.raised = None) =>
        LET ret == lexOut.out.value
            union == UnionOfPer(1)
        IN  /\ \A t \in EntryTypes \ lexOut.entry_types : lexOut.per[t] = NotSearched
            /\ \A t \in lexOut.entry_types :
                  /\ lexOut.per[t].raised = None
                  /\ Len(lexOut.per[t].value) = Min(lexOut.top_k, Cardinality(PositiveDocs(t)))
                  /\ \A i \in 1..Len(lexOut.per[t].value) :
                        /\ lexOut.per[t].value[i].entry_type = t
                        /\ lexOut.per[t].value[i].score =
                              Score(lexOut.query, lexOut.per[t].value[i].entry_id)
                        /\ \A d \in PositiveDocs(t) :
                              \/ \E j \in 1..Len(lexOut.per[t].value) :
                                    lexOut.per[t].value[j].entry_id = lexIndex[t].corpus[d].id
                              \/ Score(lexOut.query, lexIndex[t].corpus[d].id)
                                    <= lexOut.per[t].value[i].score
            /\ Len(ret) = Min(lexOut.top_k, Len(union))
            /\ \A i \in 1..(Len(ret) - 1) : ret[i].score >= ret[i + 1].score
            /\ \A i \in 1..Len(ret) :
                  /\ ret[i] \in Range(union)
                  /\ ret[i].entry_type \in lexOut.entry_types
                  /\ \A j \in 1..Len(ret) : ret[i] = ret[j] => i = j
                  /\ \A u \in Range(union) : u \in Range(ret) \/ u.score <= ret[i].score

C10_Witness ==
    /\ CombinedCalled
    /\ lexOut.out.raised = None
    /\ lexOut.top_k = 2
    /\ lexOut.entry_types = EntryTypes
    /\ Len(lexOut.per[PAPER].value) = 2
    /\ Len(UnionOfPer(1)) = 4
    /\ Len(lexOut.out.value) = 2
    /\ lexOut.out.value[1].entry_type # lexOut.out.value[2].entry_type

(***************************************************************************)
(* The named vector indices: VectorIndexRegistry and VectorSearcher         *)
(*                                                                         *)
(* Every VectorIndexRegistry is constructed for the operation that uses it *)
(* (vector/registry.py:587, 621; vector/search.py:137, 287, 343), so its   *)
(* _load_indices reads indices.json. A VectorSearcher lives across         *)
(* operations and keeps the _index and _chunks it has loaded.              *)
(***************************************************************************)

IndexNames == {"n1"}

\* Bounds of the vector indices.
MaxChunks == 2         \* add_entry_to_index is called while the chunk list is shorter
MaxCallTokens == 1     \* the tokens the embedding service reports for one call
MaxTokens == 2         \* embedding calls are made while total_tokens is below this

\* A file that does not exist, and a file with its content.
NoFile == <<>>
File(content) == <<content>>

NamedIndexNotFoundError == "NamedIndexNotFoundError"
EmbeddingError == "EmbeddingError"
AssertionError == "AssertionError"
ModelMismatchError == "ModelMismatchError"
KeyError == "KeyError"

\* vector/embeddings.py: EMBEDDING_MODELS (two of the five models), with
\* their default and supported dimensions (<<>>: the dimensions are fixed).
NoDims == 0
ModelNames == {"titan-v2", "nova"}
ModelId(model_name) ==
    IF model_name = "titan-v2" THEN "amazon.titan-embed-text-v2:0"
    ELSE "amazon.nova-2-multimodal-embeddings-v1:0"
default_dimensions(model_name) == 1024
supported_dimensions(model_name) ==
    IF model_name = "nova" THEN <<256, 512, 1024, 3072>> ELSE <<>>

\* get_model_config: whether the name is a known model.
get_model_config(model_name) ==
    IF model_name \in ModelNames THEN Returned(ModelId(model_name)) ELSE Raised(ValueError)

\* validate_dimensions
validate_dimensions_unchecked(model_name, dimensions) ==
    IF get_model_config(model_name).raised # None THEN Raised(ValueError)
    ELSE IF dimensions = NoDims THEN Returned(default_dimensions(model_name))
    ELSE Returned(dimensions)
validate_dimensions(model_name, dimensions) ==
    IF get_model_config(model_name).raised # None THEN Raised(ValueError)
    ELSE IF dimensions = NoDims THEN Returned(default_dimensions(model_name))
    ELSE IF supported_dimensions(model_name) = <<>>
         THEN (IF dimensions # default_dimensions(model_name)
               THEN Raised(ValueError) ELSE Returned(dimensions))
    ELSE IF dimensions \notin Range(supported_dimensions(model_name))
         THEN Raised(ValueError)
    ELSE Returned(dimensions)

\* The arguments create_index is called with.
CreateArgs ==
    { [model_name |-> "titan-v2", dimensions |-> NoDims,
       chunk_size |-> DEFAULT_CHUNK_SIZE, chunk_overlap |-> DEFAULT_OVERLAP],
      [model_name |-> "nova", dimensions |-> 256, chunk_size |-> 200, chunk_overlap |-> 0],
      [model_name |-> "titan-v2", dimensions |-> 256,
       chunk_size |-> DEFAULT_CHUNK_SIZE, chunk_overlap |-> DEFAULT_OVERLAP],
      [model_name |-> "unknown", dimensions |-> NoDims,
       chunk_size |-> DEFAULT_CHUNK_SIZE, chunk_overlap |-> DEFAULT_OVERLAP],
      [model_name |-> "titan-v2", dimensions |-> 1024,
       chunk_size |-> DEFAULT_CHUNK_SIZE, chunk_overlap |-> DEFAULT_OVERLAP],
      [model_name |-> "nova", dimensions |-> 300, chunk_size |-> 200, chunk_overlap |-> 0] }

\* VectorIndexMetadata (name is the key it is stored under; created_at and
\* updated_at are left out).
VectorIndexMetadata(embedding_model, dimensions, chunk_size, chunk_overlap, chunk_count, total_tokens, estimated_cost_usd) ==
    [embedding_model |-> embedding_model, dimensions |-> dimensions,
     chunk_size |-> chunk_size, chunk_overlap |-> chunk_overlap,
     chunk_count |-> chunk_count, total_tokens |-> total_tokens,
     estimated_cost_usd |-> estimated_cost_usd]

\* price_per_1000_tokens of a model, in units of 0.00001 USD, and
\* EmbeddingStats.from_tokens: the cost of a call, in units of 0.00000001 USD.
price_per_1000_tokens(model_name) == IF model_name = "nova" THEN 1 ELSE 2
total_cost(model_name, total_tokens) == total_tokens * price_per_1000_tokens(model_name)

\* get_model_name_for_index: the CLI name of a model id (the id itself when no
\* model has it).
model_name_of(model_id) ==
    IF \E m \in ModelNames : ModelId(m) = model_id
    THEN CHOOSE m \in ModelNames : ModelId(m) = model_id
    ELSE model_id

\* The searchable texts of the vector indices, by name: no words, three
\* words on one line, 350 words on two pages, and one line of spaces.
LongText == "long"
BlankText == "blank"
VecTexts == {EmptyText, ShortText, LongText, BlankText}

\* A text that the default chunker cuts into more chunks than a search for one
\* result retrieves: ManyWords words on one line.
ManyWords == 2600
VeryLongText == "very long"

TextOf(t) ==
    IF t = ShortText THEN <<Line(NoPage, NoSection, 3)>>
    ELSE IF t = LongText THEN <<Line(1, NoSection, 200), Line(2, NoSection, 150)>>
    ELSE IF t = BlankText THEN <<Line(NoPage, NoSection, 0)>>
    ELSE IF t = VeryLongText THEN <<Line(NoPage, NoSection, ManyWords)>>
    ELSE <<>>

\* TextChunker() with the default sizes (VectorSearcher.__init__:
\* self.chunker = TextChunker()) and the TextChunker(chunk_size=200, overlap=0)
\* of an index created with those sizes.
DefaultChunker ==
    [chunk_size |-> DEFAULT_CHUNK_SIZE, overlap |-> DEFAULT_OVERLAP,
     min_chunk_size |-> MIN_CHUNK_SIZE]
SmallChunker == [chunk_size |-> 200, overlap |-> 0, min_chunk_size |-> MIN_CHUNK_SIZE]

\* chunk_text of every text by a chunker. How a text is cut does not depend on
\* the entry it belongs to, so each text is cut once for each chunker in use.
ChunksByText(cfg) ==
    [empty |-> chunk_text(cfg, TextOf(EmptyText), None, None),
     blank |-> chunk_text(cfg, TextOf(BlankText), None, None),
     short |-> chunk_text(cfg, TextOf(ShortText), None, None),
     long |-> chunk_text(cfg, TextOf(LongText), None, None)]
DefaultChunks == ChunksByText(DefaultChunker)
SmallChunks == ChunksByText(SmallChunker)
VeryLongChunks == chunk_text(DefaultChunker, TextOf(VeryLongText), None, None)

\* chunker.chunk_text(searchable_text, entry_id, entry_type) for the text named
\* text.
entry_chunks(cfg, text, entry_id, entry_type) ==
    LET cut == IF text = VeryLongText /\ cfg = DefaultChunker THEN VeryLongChunks
               ELSE IF text = VeryLongText THEN chunk_text(cfg, TextOf(text), None, None)
               ELSE IF cfg = DefaultChunker THEN DefaultChunks[text]
               ELSE IF cfg = SmallChunker THEN SmallChunks[text]
               ELSE chunk_text(cfg, TextOf(text), None, None)
    IN  [i \in 1..Len(cut) |->
            [cut[i] EXCEPT !.entry_id = entry_id, !.entry_type = entry_type]]

\* The vector Bedrock returns for a chunk text: it is determined by the text
\* (the document it is cut from, where the window starts and how long it is).
Embedding(chunk) ==
    [doc |-> chunk.entry_id, at |-> chunk.text[1], len |-> Len(chunk.text)]

\* The inner product of the normalised query vector and a row of the index,
\* in tenths. Chunks of different documents never score the same.
Sim(query, vec) ==
    IF query = "q1"
    THEN (IF vec.doc = "a" THEN (IF vec.at = 1 THEN 5 ELSE 9)
          ELSE IF vec.doc = "c" THEN 7 ELSE 4)
    ELSE (IF vec.doc = "a" THEN (IF vec.at = 1 THEN 4 ELSE 2)
          ELSE IF vec.doc = "c" THEN 6 ELSE 3)

\* The persisted state of the named indices after a call, and its outcome.
After(out, idx, mf, cf, ff) ==
    [out |-> out, indices |-> idx, metaFile |-> mf, chunksFile |-> cf, faissFile |-> ff]

\* The field validators of VectorIndexMetadata that a value of the model can
\* fail: dimensions is positive (every name of IndexNames is a valid name).
Validates(data) == data.dimensions > 0

\* VectorIndexRegistry._load_indices of a new registry object: every entry of
\* indices.json is parsed into a VectorIndexMetadata; when one of them does
\* not validate, the registry is read as empty.
load_indices(idx) ==
    IF \E n \in DOMAIN idx : idx[n] # NoFile /\ ~Validates(idx[n][1])
    THEN [n \in DOMAIN idx |-> NoFile] ELSE idx

\* VectorIndexRegistry.index_exists
index_exists(idx, name) == load_indices(idx)[name] # NoFile

\* VectorIndexRegistry.get_index
get_index(idx, name) ==
    IF name \notin DOMAIN idx \/ ~index_exists(idx, name)
    THEN Raised(NamedIndexNotFoundError) ELSE Returned(load_indices(idx)[name][1])

\* VectorIndexRegistry._save_index_metadata: metadata.json of the index
\* directory.
save_index_metadata(mf, name, metadata) == [mf EXCEPT ![name] = File(metadata)]

\* VectorIndexRegistry._save_indices after indices[name] = metadata.
save_indices(idx, name, metadata) == [load_indices(idx) EXCEPT ![name] = File(metadata)]

\* Whether the directory of the index exists: it is made right before a file
\* is written to it.
index_dir_exists(mf, cf, ff, name) ==
    mf[name] # NoFile \/ cf[name] # NoFile \/ ff[name] # NoFile

\* VectorIndexRegistry.create_index: the metadata is saved and registered;
\* the index directory is made if it is missing and nothing else is written
\* to it.
create_index(idx, mf, cf, ff, name, args) ==
    IF index_exists(idx, name) THEN After(Raised(ValueError), idx, mf, cf, ff)
    ELSE IF get_model_config(args.model_name).raised # None
         THEN After(Raised(ValueError), idx, mf, cf, ff)
    ELSE IF validate_dimensions(args.model_name, args.dimensions).raised # None
         THEN After(Raised(ValueError), idx, mf, cf, ff)
    ELSE LET metadata ==
                 VectorIndexMetadata(get_model_config(args.model_name).value,
                                     validate_dimensions(args.model_name, args.dimensions).value,
                                     args.chunk_size, args.chunk_overlap, 0, 0, 0)
         IN  IF ~Validates(metadata) THEN After(Raised(ValueError), idx, mf, cf, ff)
             ELSE After(Returned(metadata), save_indices(idx, name, metadata),
                        save_index_metadata(mf, name, metadata), cf, ff)

\* VectorIndexRegistry.delete_index: the directory goes with all it holds.
delete_index_keeps_directory(idx, mf, cf, ff, name) ==
    IF ~index_exists(idx, name)
    THEN After(Raised(NamedIndexNotFoundError), idx, mf, cf, ff)
    ELSE After(Returned(<<>>), [load_indices(idx) EXCEPT ![name] = NoFile], mf, cf, ff)
delete_index(idx, mf, cf, ff, name) ==
    IF ~index_exists(idx, name)
    THEN After(Raised(NamedIndexNotFoundError), idx, mf, cf, ff)
    ELSE After(Returned(<<>>), [load_indices(idx) EXCEPT ![name] = NoFile],
               [mf EXCEPT ![name] = NoFile],
               [cf EXCEPT ![name] = NoFile], [ff EXCEPT ![name] = NoFile])

\* The metadata update_index_stats writes: the configuration is copied.
updated_metadata_with_defaults(metadata, chunk_count, total_tokens, estimated_cost_usd) ==
    VectorIndexMetadata(metadata.embedding_model, metadata.dimensions,
                        DEFAULT_CHUNK_SIZE, DEFAULT_OVERLAP,
                        chunk_count, total_tokens, estimated_cost_usd)
updated_metadata(metadata, chunk_count, total_tokens, estimated_cost_usd) ==
    VectorIndexMetadata(metadata.embedding_model, metadata.dimensions,
                        metadata.chunk_size, metadata.chunk_overlap,
                        chunk_count, total_tokens, estimated_cost_usd)

\* VectorIndexRegistry.update_index_stats: the registry and the metadata file
\* afterwards, or the exception.
update_index_stats(idx, mf, name, chunk_count, total_tokens, estimated_cost_usd) ==
    IF ~index_exists(idx, name) THEN Raised(NamedIndexNotFoundError)
    ELSE LET metadata == updated_metadata(get_index(idx, name).value, chunk_count,
                                          total_tokens, estimated_cost_usd)
         IN  Returned([indices |-> save_indices(idx, name, metadata),
                       metaFile |-> save_index_metadata(mf, name, metadata)])

\* VectorIndexRegistry.load_index_data: the rows of the vector artifact and
\* the chunk list.
load_index_data(idx, cf, ff, name) ==
    IF ~index_exists(idx, name) THEN Raised(NamedIndexNotFoundError)
    ELSE IF ff[name] = NoFile \/ cf[name] = NoFile THEN Raised(NamedIndexNotFoundError)
    ELSE Returned([index |-> ff[name][1], chunks |-> cf[name][1]])

\* embed_texts: one vector per text, in the order of the texts.
embed_texts(chunks) == [i \in 1..Len(chunks) |-> Embedding(chunks[i])]

\* BedrockEmbeddings.embed_texts as its caller sees it: future.result()
\* re-raises the EmbeddingError of a failed call, so the vectors are returned
\* only when every call succeeded (embedded).
embed_texts_skips_failures(chunks, embedded) == Returned(embed_texts(chunks))
embed_texts_result(chunks, embedded) ==
    IF embedded THEN Returned(embed_texts(chunks)) ELSE Raised(EmbeddingError)

\* add_entry_to_index: chunks.extend(new_chunks)
Extend(chunks, new_chunks) == chunks \o new_chunks

\* VectorIndexRegistry.add_entry_to_index. embedded: whether every embedding
\* call succeeds; tokens: the tokens the service reports for the call.
add_entry_to_index(idx, mf, cf, ff, name, key, text, embedded, tokens) ==
    IF ~index_exists(idx, name)
    THEN After(Raised(NamedIndexNotFoundError), idx, mf, cf, ff)
    ELSE LET loaded == load_index_data(idx, cf, ff, name)
         IN  IF loaded.raised # None THEN After(loaded, idx, mf, cf, ff)
             ELSE
             LET metadata == get_index(idx, name).value
                 model_name == model_name_of(metadata.embedding_model)
                 chunker == [chunk_size |-> metadata.chunk_size,
                             overlap |-> metadata.chunk_overlap,
                             min_chunk_size |-> MIN_CHUNK_SIZE]
                 new_chunks == entry_chunks(chunker, text, key[2], key[1])
             IN  IF new_chunks = <<>>
                 THEN After(Returned([chunks |-> 0, tokens |-> 0, cost |-> 0]),
                            idx, mf, cf, ff)
                 ELSE IF embed_texts_result(new_chunks, embedded).raised # None
                 THEN After(Raised(EmbeddingError), idx, mf, cf, ff)
                 ELSE
                 LET index == loaded.value.index \o embed_texts(new_chunks)
                     chunks == Extend(loaded.value.chunks, new_chunks)
                     cost == total_cost(model_name, tokens)
                     stats == update_index_stats(idx, mf, name, Len(chunks),
                                                 metadata.total_tokens + tokens,
                                                 metadata.estimated_cost_usd + cost).value
                 IN  After(Returned([chunks |-> Len(new_chunks), tokens |-> tokens,
                                     cost |-> cost]),
                           stats.indices, stats.metaFile,
                           [cf EXCEPT ![name] = File(chunks)],
                           [ff EXCEPT ![name] = File(index)])

\* remove_entry_from_index: total_tokens=metadata.total_tokens
tokens_recounted(metadata) == 0
tokens_after_removal(metadata) == metadata.total_tokens

\* VectorIndexRegistry.remove_entry_from_index. embedded: whether every
\* embedding call for the remaining chunks succeeds.
remove_entry_from_index(idx, mf, cf, ff, name, entry_id, embedded) ==
    IF ~index_exists(idx, name)
    THEN After(Raised(NamedIndexNotFoundError), idx, mf, cf, ff)
    ELSE LET loaded == load_index_data(idx, cf, ff, name)
         IN  IF loaded.raised # None THEN After(loaded, idx, mf, cf, ff)
             ELSE
             LET metadata == get_index(idx, name).value
                 chunks == loaded.value.chunks
                 remaining_chunks == SelectSeq(chunks, LAMBDA c : c.entry_id # entry_id)
                 removed_count == Len(chunks) - Len(remaining_chunks)
                 stats == update_index_stats(idx, mf, name, Len(remaining_chunks),
                                             tokens_after_removal(metadata),
                                             metadata.estimated_cost_usd).value
             IN  IF removed_count = 0 THEN After(Returned(0), idx, mf, cf, ff)
                 ELSE IF /\ remaining_chunks # <<>>
                         /\ embed_texts_result(remaining_chunks, embedded).raised # None
                      THEN After(Raised(EmbeddingError), idx, mf, cf, ff)
                 ELSE After(Returned(removed_count), stats.indices, stats.metaFile,
                            [cf EXCEPT ![name] = File(remaining_chunks)],
                            [ff EXCEPT ![name] = File(embed_texts(remaining_chunks))])

\* VectorIndexRegistry.list_indices: the names of the registered indices, in
\* the order the registry holds them (order: the order of all the names).
list_indices(idx, order) == SelectSeq(order, LAMBDA n : load_indices(idx)[n] # NoFile)

\* The for loop of the two operations on all indices goes on to the next
\* index whether the call on this one raised or not.
rest_unless_failed(names, failed) == IF failed THEN <<>> ELSE Tail(names)
rest_of_indices(names, failed) == Tail(names)

\* update_all_indices_with_entry: results[name] is the stats of the call, or
\* {"error": str(e)} when it raised.
added_outcome(out) == IF out.raised # None THEN [error |-> out.raised] ELSE out.value

\* remove_entry_from_all_indices: results[name] is the removed count, or -1
\* when the call raised.
removed_outcome(out) == IF out.raised # None THEN -1 ELSE out.value

\* The loop of update_all_indices_with_entry over the indices of names.
\* embedded[name]: whether the embedding calls for that index succeed.
RECURSIVE UpdateAllLoop(_, _, _, _, _, _, _)
UpdateAllLoop(names, st, results, key, text, embedded, tokens) ==
    IF names = <<>>
    THEN After(Returned(results), st.indices, st.metaFile, st.chunksFile, st.faissFile)
    ELSE LET name == Head(names)
             after == add_entry_to_index(st.indices, st.metaFile, st.chunksFile,
                                         st.faissFile, name, key, text,
                                         embedded[name], tokens)
         IN  UpdateAllLoop(rest_of_indices(names, after.out.raised # None), after,
                           [results EXCEPT ![name] = File(added_outcome(after.out))],
                           key, text, embedded, tokens)

\* update_all_indices_with_entry: a dictionary from the names of the
\* registered indices to the outcomes.
update_all_indices_with_entry(idx, mf, cf, ff, order, key, text, embedded, tokens) ==
    UpdateAllLoop(list_indices(idx, order), After(None, idx, mf, cf, ff),
                  [n \in DOMAIN idx |-> NoFile], key, text, embedded, tokens)

\* The loop of remove_entry_from_all_indices over the indices of names.
RECURSIVE RemoveAllLoop(_, _, _, _, _)
RemoveAllLoop(names, st, results, entry_id, embedded) ==
    IF names = <<>>
    THEN After(Returned(results), st.indices, st.metaFile, st.chunksFile, st.faissFile)
    ELSE LET name == Head(names)
             after == remove_entry_from_index(st.indices, st.metaFile, st.chunksFile,
                                              st.faissFile, name, entry_id, embedded[name])
         IN  RemoveAllLoop(rest_of_indices(names, after.out.raised # None), after,
                           [results EXCEPT ![name] = File(removed_outcome(after.out))],
                           entry_id, embedded)

\* remove_entry_from_all_indices
remove_entry_from_all_indices(idx, mf, cf, ff, order, entry_id, embedded) ==
    RemoveAllLoop(list_indices(idx, order), After(None, idx, mf, cf, ff),
                  [n \in DOMAIN idx |-> NoFile], entry_id, embedded)

(***************************************************************************)
(* VectorSearcher for a named index                                        *)
(***************************************************************************)

\* VectorSearcher.__init__(index_name, model_name, dimensions): the model
\* arguments are kept (None, NoDims: not given) and no embeddings client is
\* made yet.
VectorSearcherInit(model_name, dimensions) ==
    [model_name |-> model_name, dimensions |-> dimensions, embeddings |-> NoFile]

DEFAULT_MODEL == "titan-v2"

\* BedrockEmbeddings.__init__: the client of a model, with its dimensions.
BedrockEmbeddings(model_name, dimensions) ==
    IF get_model_config(model_name).raised # None THEN Raised(ValueError)
    ELSE IF validate_dimensions(model_name, dimensions).raised # None
         THEN Raised(ValueError)
    ELSE Returned([model_name |-> model_name,
                   dimensions |-> validate_dimensions(model_name, dimensions).value])

\* VectorSearcher.embeddings (property) of the searcher s of the index name:
\* the client, and the searcher afterwards. The client is made once: from the
\* metadata of the index when the name is registered, else from the
\* constructor's arguments, else for the default model.
searcher_embeddings(idx, name, s) ==
    IF s.embeddings # NoFile THEN [out |-> Returned(s.embeddings[1]), searcher |-> s]
    ELSE LET metadata == get_index(idx, name)
             made == IF metadata.raised = None
                     THEN BedrockEmbeddings(model_name_of(metadata.value.embedding_model),
                                            metadata.value.dimensions)
                     ELSE IF s.model_name # None
                     THEN BedrockEmbeddings(s.model_name, s.dimensions)
                     ELSE BedrockEmbeddings(DEFAULT_MODEL, NoDims)
         IN  IF made.raised # None THEN [out |-> made, searcher |-> s]
             ELSE [out |-> made, searcher |-> [s EXCEPT !.embeddings = File(made.value)]]

\* CharacterLimitChunker.process_chunks: chunks within the character budget
\* pass through unchanged, and every text of the model is within the budget
\* of every embedding model.
process_chunks(chunks) == chunks

\* The chunks of the entries ids of one collection, in the order of ids.
RECURSIVE ChunkEntries(_, _, _)
ChunkEntries(coll, t, ids) ==
    IF ids = <<>> THEN <<>>
    ELSE entry_chunks(DefaultChunker, coll[<<t, Head(ids)>>], Head(ids), t)
         \o ChunkEntries(coll, t, Tail(ids))

\* The persisted state, the searcher's memory and the outcome after a call
\* of the searcher.
AfterSearcher(out, idx, mf, cf, ff, c, s) ==
    [out |-> out, indices |-> idx, metaFile |-> mf, chunksFile |-> cf, faissFile |-> ff,
     cache |-> c, searcher |-> s]

\* VectorSearcher.rebuild_index on the named index name. c: the index and
\* chunks the searcher holds in memory; s: the searcher's model arguments and
\* embeddings client.
vector_rebuild_index(coll, ok, idx, mf, cf, ff, c, s, name, embedded, tokens) ==
    LET papers == list_entries(coll, ok, PAPER)
        books == list_entries(coll, ok, BOOK)
        media == list_entries(coll, ok, MEDIA)
    IN  IF papers.raised # None THEN AfterSearcher(papers, idx, mf, cf, ff, c, s)
        ELSE IF books.raised # None THEN AfterSearcher(books, idx, mf, cf, ff, c, s)
        ELSE IF media.raised # None THEN AfterSearcher(media, idx, mf, cf, ff, c, s)
        ELSE
        LET all_chunks == ChunkEntries(coll, PAPER, papers.value)
                          \o ChunkEntries(coll, BOOK, books.value)
                          \o ChunkEntries(coll, MEDIA, media.value)
            client == searcher_embeddings(idx, name, s)
        IN  IF all_chunks = <<>>
            THEN AfterSearcher(Returned([chunks |-> 0, tokens |-> 0, cost |-> 0]),
                               idx, mf, cf, ff, c, s)
            ELSE IF client.out.raised # None
            THEN AfterSearcher(client.out, idx, mf, cf, ff, c, client.searcher)
            ELSE IF embed_texts_result(process_chunks(all_chunks), embedded).raised # None
            THEN AfterSearcher(Raised(EmbeddingError), idx, mf, cf, ff, c, client.searcher)
            ELSE
            LET limited == process_chunks(all_chunks)
                cost == total_cost(client.out.value.model_name, tokens)
                saved_cf == [cf EXCEPT ![name] = File(limited)]
                saved_ff == [ff EXCEPT ![name] = File(embed_texts(limited))]
                stats == update_index_stats(idx, mf, name, Len(limited), tokens, cost)
            IN  IF stats.raised # None
                THEN AfterSearcher(stats, idx, mf, saved_cf, saved_ff, c, client.searcher)
                ELSE AfterSearcher(Returned([chunks |-> Len(limited), tokens |-> tokens,
                                             cost |-> cost]),
                                   stats.value.indices, stats.value.metaFile,
                                   saved_cf, saved_ff, NoFile, client.searcher)

\* VectorSearcher._load_index: what search works on, and the searcher's
\* memory afterwards.
vector_load_index(idx, cf, ff, c, name) ==
    IF c # NoFile /\ c[1].chunks # <<>> THEN [out |-> Returned(c[1]), cache |-> c]
    ELSE LET loaded == load_index_data(idx, cf, ff, name)
         IN  IF loaded.raised # None THEN [out |-> loaded, cache |-> c]
             ELSE [out |-> loaded, cache |-> File(loaded.value)]

\* search_k = min(top_k * 10, len(chunks))
RETRIEVE_FACTOR == 10
search_k(top_k, chunks) == Min(top_k * RETRIEVE_FACTOR, Len(chunks))

\* index.search(query, k) of a flat inner-product index: the k rows most
\* similar to the query, best first (rows that score the same are rows of one
\* document and are taken in row order).
index_search(index, query, k) ==
    Slice(SortByScore([i \in 1..Len(index) |-> [idx |-> i - 1, score |-> Sim(query, index[i])]]),
          0, k)

\* Where entry_id is in the dict entry_scores, or 0.
PositionOf(entry_scores, entry_id) ==
    LET at == {i \in 1..Len(entry_scores) : entry_scores[i].entry_id = entry_id}
    IN  IF at = {} THEN 0 ELSE SetMin(at)

\* score > entry_scores[chunk.entry_id][0]
BetterIsLower(score, best) == score < best
Better(score, best) == score > best

\* The aggregation loop of VectorSearcher.search: the best retrieved chunk of
\* each entry that passes the filters, in the order the entries are first met.
RECURSIVE Aggregate(_, _, _, _, _)
Aggregate(retrieved, chunks, entry_id, entry_types, entry_scores) ==
    IF retrieved = <<>> THEN entry_scores
    ELSE
    LET idx == Head(retrieved).idx
        score == Head(retrieved).score
        rest == Tail(retrieved)
    IN  IF idx < 0 \/ idx >= Len(chunks)
        THEN Aggregate(rest, chunks, entry_id, entry_types, entry_scores)
        ELSE
        LET chunk == chunks[idx + 1]
            at == PositionOf(entry_scores, chunk.entry_id)
            kept == [entry_id |-> chunk.entry_id, score |-> score,
                     entry_type |-> chunk.entry_type]
        IN  IF entry_id # None /\ chunk.entry_id # entry_id
            THEN Aggregate(rest, chunks, entry_id, entry_types, entry_scores)
            ELSE IF entry_types # {} /\ chunk.entry_type \notin entry_types
            THEN Aggregate(rest, chunks, entry_id, entry_types, entry_scores)
            ELSE IF at = 0
            THEN Aggregate(rest, chunks, entry_id, entry_types, Append(entry_scores, kept))
            ELSE IF Better(score, entry_scores[at].score)
            THEN Aggregate(rest, chunks, entry_id, entry_types,
                           [entry_scores EXCEPT ![at] = kept])
            ELSE Aggregate(rest, chunks, entry_id, entry_types, entry_scores)

\* sorted(entry_scores.items(), key=score, reverse=True)[:top_k]
TakeTopK(ranked, top_k) == Slice(ranked, 0, top_k)

\* The results loop of VectorSearcher.search: each result reads its entry
\* from the registry of its type.
RECURSIVE VectorResults(_, _, _)
VectorResults(coll, ok, ranked) ==
    IF ranked = <<>> THEN Returned(<<>>)
    ELSE LET entry == get_entry(coll, ok, Head(ranked).entry_type, Head(ranked).entry_id)
         IN  IF entry.raised # None THEN entry
             ELSE LET rest == VectorResults(coll, ok, Tail(ranked))
                  IN  IF rest.raised # None THEN rest
                      ELSE Returned(<<[entry_id |-> Head(ranked).entry_id,
                                       score |-> Head(ranked).score,
                                       entry_type |-> Head(ranked).entry_type,
                                       resolved |-> entry.value # <<>>]>>
                                    \o rest.value)

\* What index.search does when it is asked for no row at all (k = 0): the
\* source does not say, so it either raises or returns no row.
ZeroK == {"raises", "empty"}

\* VectorSearcher.search on the named index name: the outcome, the searcher's
\* memory and embeddings client afterwards, the rows index.search retrieved
\* and the model the query was embedded with (None: it was not embedded).
\* embedded: whether embedding the query succeeds.
vector_search(coll, ok, idx, cf, ff, c, s, name, query, entry_id, top_k, entry_types, embedded, zero_k) ==
    LET loaded == vector_load_index(idx, cf, ff, c, name)
        client == searcher_embeddings(idx, name, s)
        stopped(out, sr) ==
            [out |-> out, cache |-> loaded.cache, searcher |-> sr, retrieved |-> <<>>,
             model |-> None, dimensions |-> NoDims]
    IN  IF loaded.out.raised # None THEN stopped(loaded.out, s)
        ELSE IF client.out.raised # None THEN stopped(client.out, client.searcher)
        ELSE IF ~embedded THEN stopped(Raised(EmbeddingError), client.searcher)
        ELSE
        LET index == loaded.out.value.index
            chunks == loaded.out.value.chunks
            k == search_k(top_k, chunks)
        IN  IF k = 0 /\ zero_k = "raises"
            THEN [stopped(Raised(AssertionError), client.searcher) EXCEPT
                     !.model = client.out.value.model_name,
                     !.dimensions = client.out.value.dimensions]
            ELSE
            LET retrieved == index_search(index, query, k)
                entry_scores == Aggregate(retrieved, chunks, entry_id, entry_types, <<>>)
                ranked == TakeTopK(SortByScore(entry_scores), top_k)
            IN  [out |-> VectorResults(coll, ok, ranked), cache |-> loaded.cache,
                 searcher |-> client.searcher, retrieved |-> retrieved,
                 model |-> client.out.value.model_name,
                 dimensions |-> client.out.value.dimensions]

\* The collections the named indices are built from: nothing at all, or a
\* long paper a and a short book c.
VecCollections ==
    { [k \in EntryKeys |-> Absent],
      [k \in EntryKeys |-> IF k = <<PAPER, "a">> THEN LongText
                           ELSE IF k = <<BOOK, "c">> THEN ShortText ELSE Absent] }

\* What add_entry_to_index is called with: an entry and its searchable text.
AddInputs ==
    { [key |-> <<PAPER, "a">>, text |-> LongText],
      [key |-> <<PAPER, "a">>, text |-> EmptyText],
      [key |-> <<BOOK, "c">>, text |-> BlankText],
      [key |-> <<BOOK, "c">>, text |-> ShortText] }

EntryIds == {"a", "c"}

Init ==
    /\ call = Idle
    /\ collection \in VecCollections
    /\ registryOk = [t \in EntryTypes |-> TRUE]
    /\ lexIndex = [t \in EntryTypes |-> NoIndex]
    /\ lexOut = Idle
    /\ indices = [n \in IndexNames |-> NoFile]
    /\ metaFile = [n \in IndexNames |-> NoFile]
    /\ chunksFile = [n \in IndexNames |-> NoFile]
    /\ faissFile = [n \in IndexNames |-> NoFile]
    /\ cache = [n \in IndexNames |-> NoFile]
    /\ searcher = [n \in IndexNames |-> VectorSearcherInit(None, NoDims)]
    /\ vecOut = Idle
    /\ removed = [n \in IndexNames |-> {}]

\* The chunk list stays within the bound, and so does total_tokens.
Roomy(name) ==
    /\ IF chunksFile[name] = NoFile THEN TRUE ELSE Len(chunksFile[name][1]) < MaxChunks
    /\ IF indices[name] = NoFile THEN TRUE ELSE indices[name][1].total_tokens < MaxTokens

Persist(after) ==
    /\ indices' = after.indices
    /\ metaFile' = after.metaFile
    /\ chunksFile' = after.chunksFile
    /\ faissFile' = after.faissFile

CreateIndex(name, args) ==
    /\ vecOut = Idle
    /\ \E after \in {create_index(indices, metaFile, chunksFile, faissFile, name, args)} :
           /\ Persist(after)
           /\ vecOut' = [op |-> "create_index", name |-> name, args |-> args,
                         out |-> after.out]
    /\ UNCHANGED <<call, lexVars, cache, searcher, removed>>

DeleteIndex(name) ==
    /\ vecOut = Idle
    /\ \E after \in {delete_index(indices, metaFile, chunksFile, faissFile, name)} :
           /\ Persist(after)
           /\ vecOut' = [op |-> "delete_index", name |-> name, out |-> after.out]
           /\ removed' = IF after.out.raised = None
                         THEN [removed EXCEPT ![name] = {}] ELSE removed
    /\ UNCHANGED <<call, lexVars, cache, searcher>>

AddEntryToIndex(name, input, embedded, tokens) ==
    /\ vecOut = Idle
    /\ Roomy(name)
    /\ \E after \in {add_entry_to_index(indices, metaFile, chunksFile, faissFile, name,
                                         input.key, input.text, embedded, tokens)} :
           /\ Persist(after)
           /\ vecOut' = [op |-> "add_entry_to_index", name |-> name,
                         entry_id |-> input.key[2], text |-> input.text, out |-> after.out]
           /\ removed' = IF after.chunksFile # chunksFile
                         THEN [removed EXCEPT ![name] = @ \ {input.key[2]}] ELSE removed
    /\ UNCHANGED <<call, lexVars, cache, searcher>>

RemoveEntryFromIndex(name, entry_id, embedded) ==
    /\ vecOut = Idle
    /\ \E after \in {remove_entry_from_index(indices, metaFile, chunksFile, faissFile, name,
                                              entry_id, embedded)} :
           /\ Persist(after)
           /\ vecOut' = [op |-> "remove_entry_from_index", name |-> name,
                         entry_id |-> entry_id, out |-> after.out]
           /\ removed' = IF after.out.raised = None
                         THEN [removed EXCEPT ![name] = @ \cup {entry_id}] ELSE removed
    /\ UNCHANGED <<call, lexVars, cache, searcher>>

VectorRebuild(name, embedded, tokens) ==
    /\ vecOut = Idle
    /\ \E after \in {vector_rebuild_index(collection, registryOk, indices, metaFile, chunksFile,
                                           faissFile, cache[name], searcher[name], name,
                                           embedded, tokens)} :
           /\ Persist(after)
           /\ cache' = [cache EXCEPT ![name] = after.cache]
           /\ searcher' = [searcher EXCEPT ![name] = after.searcher]
           /\ vecOut' = [op |-> "rebuild_index", name |-> name, out |-> after.out]
           /\ removed' = IF after.chunksFile[name] # NoFile
                         THEN [removed EXCEPT ![name] =
                                  @ \ {c.entry_id : c \in Range(after.chunksFile[name][1])}]
                         ELSE removed
    /\ UNCHANGED <<call, lexVars>>

VectorSearch(name, query, entry_id, top_k, entry_types, embedded, zero_k) ==
    /\ vecOut = Idle
    /\ \E after \in {vector_search(collection, registryOk, indices, chunksFile, faissFile,
                                    cache[name], searcher[name], name, query, entry_id,
                                    top_k, entry_types, embedded, zero_k)} :
           /\ cache' = [cache EXCEPT ![name] = after.cache]
           /\ searcher' = [searcher EXCEPT ![name] = after.searcher]
           /\ vecOut' = [op |-> "search", name |-> name, query |-> query,
                         entry_id |-> entry_id, top_k |-> top_k,
                         entry_types |-> entry_types, out |-> after.out,
                         retrieved |-> after.retrieved, model |-> after.model,
                         dimensions |-> after.dimensions]
    /\ UNCHANGED <<call, lexVars, indices, metaFile, chunksFile, faissFile, removed>>

\* A new VectorSearcher(index_name=name, model_name, dimensions) takes the
\* place of the old one.
NewSearcher(name, model_name, dimensions) ==
    /\ vecOut = Idle
    /\ cache[name] # NoFile \/ searcher[name] # VectorSearcherInit(model_name, dimensions)
    /\ cache' = [cache EXCEPT ![name] = NoFile]
    /\ searcher' = [searcher EXCEPT ![name] = VectorSearcherInit(model_name, dimensions)]
    /\ UNCHANGED <<call, lexVars, indices, metaFile, chunksFile, faissFile, vecOut, removed>>

\* The caller has the outcome of the call.
VecReturn ==
    /\ vecOut # Idle
    /\ vecOut' = Idle
    /\ UNCHANGED <<call, lexVars, indices, metaFile, chunksFile, faissFile, cache, searcher,
                   removed>>

Next ==
    \/ \E name \in IndexNames, args \in CreateArgs : CreateIndex(name, args)
    \/ \E name \in IndexNames : DeleteIndex(name)
    \/ \E name \in IndexNames, input \in AddInputs, embedded \in BOOLEAN,
          tokens \in 0..MaxCallTokens : AddEntryToIndex(name, input, embedded, tokens)
    \/ \E name \in IndexNames, entry_id \in EntryIds, embedded \in BOOLEAN :
          RemoveEntryFromIndex(name, entry_id, embedded)
    \/ \E name \in IndexNames, embedded \in BOOLEAN, tokens \in 0..MaxCallTokens :
          VectorRebuild(name, embedded, tokens)
    \/ \E name \in IndexNames, query \in Queries, entry_id \in {None, "a"},
          top_k \in 0..MaxTopK, entry_types \in {{}, {BOOK}},
          embedded \in BOOLEAN, zero_k \in ZeroK :
          VectorSearch(name, query, entry_id, top_k, entry_types, embedded, zero_k)
    \/ \E name \in IndexNames : NewSearcher(name, None, NoDims)
    \/ VecReturn

Spec == Init /\ [][Next]_vars

\* The operations that write the named indices, without the searches.
NextReg ==
    \/ \E name \in IndexNames, args \in CreateArgs : CreateIndex(name, args)
    \/ \E name \in IndexNames : DeleteIndex(name)
    \/ \E name \in IndexNames, input \in AddInputs, embedded \in BOOLEAN,
          tokens \in 0..MaxCallTokens : AddEntryToIndex(name, input, embedded, tokens)
    \/ \E name \in IndexNames, entry_id \in EntryIds, embedded \in BOOLEAN :
          RemoveEntryFromIndex(name, entry_id, embedded)
    \/ \E name \in IndexNames, embedded \in BOOLEAN, tokens \in 0..MaxCallTokens :
          VectorRebuild(name, embedded, tokens)
    \/ \E name \in IndexNames : NewSearcher(name, None, NoDims)
    \/ VecReturn

SpecReg == Init /\ [][NextReg]_vars

(***************************************************************************)
(* Two named indices and the operations on all of them                     *)
(***************************************************************************)

AllNames == {"n1", "n2"}

\* The orders a registry can hold the names in.
NameOrders == {<<"n1", "n2">>, <<"n2", "n1">>}

\* What the indices of AllNames are created with: the default model and
\* chunker, and nova with a small chunker.
AllCreateArgs ==
    { args \in CreateArgs : validate_dimensions(args.model_name, args.dimensions).raised = None }

\* What update_all_indices_with_entry is called with.
AllInputs ==
    { [key |-> <<PAPER, "a">>, text |-> EmptyText],
      [key |-> <<BOOK, "c">>, text |-> ShortText] }

InitAll ==
    /\ call = Idle
    /\ collection = [k \in EntryKeys |-> IF k = <<BOOK, "c">> THEN ShortText ELSE Absent]
    /\ registryOk = [t \in EntryTypes |-> TRUE]
    /\ lexIndex = [t \in EntryTypes |-> NoIndex]
    /\ lexOut = Idle
    /\ indices = [n \in AllNames |-> NoFile]
    /\ metaFile = [n \in AllNames |-> NoFile]
    /\ chunksFile = [n \in AllNames |-> NoFile]
    /\ faissFile = [n \in AllNames |-> NoFile]
    /\ cache = [n \in AllNames |-> NoFile]
    /\ searcher = [n \in AllNames |-> VectorSearcherInit(None, NoDims)]
    /\ vecOut = Idle
    /\ removed = [n \in AllNames |-> {}]

\* A new VectorSearcher(index_name=name) rebuilds the index and is dropped.
RebuildWithNewSearcher(name, embedded, tokens) ==
    /\ vecOut = Idle
    /\ \E after \in {vector_rebuild_index(collection, registryOk, indices, metaFile, chunksFile,
                                           faissFile, NoFile, VectorSearcherInit(None, NoDims),
                                           name, embedded, tokens)} :
           /\ Persist(after)
           /\ vecOut' = [op |-> "rebuild_index", name |-> name, out |-> after.out]
           /\ removed' = IF after.chunksFile[name] # NoFile
                         THEN [removed EXCEPT ![name] =
                                  @ \ {c.entry_id : c \in Range(after.chunksFile[name][1])}]
                         ELSE removed
    /\ UNCHANGED <<call, lexVars, cache, searcher>>

UpdateAllIndicesWithEntry(order, input, embedded, tokens) ==
    /\ vecOut = Idle
    /\ \A name \in AllNames : Roomy(name)
    /\ \E after \in {update_all_indices_with_entry(indices, metaFile, chunksFile, faissFile,
                                                    order, input.key, input.text,
                                                    embedded, tokens)} :
           /\ Persist(after)
           /\ vecOut' = [op |-> "update_all_indices_with_entry",
                         input |-> input, embedded |-> embedded, tokens |-> tokens,
                         out |-> after.out]
           /\ removed' = [n \in AllNames |->
                             IF after.chunksFile[n] # chunksFile[n]
                             THEN removed[n] \ {input.key[2]} ELSE removed[n]]
    /\ UNCHANGED <<call, lexVars, cache, searcher>>

RemoveEntryFromAllIndices(order, entry_id, embedded) ==
    /\ vecOut = Idle
    /\ \E after \in {remove_entry_from_all_indices(indices, metaFile, chunksFile, faissFile,
                                                    order, entry_id, embedded)} :
           /\ Persist(after)
           /\ vecOut' = [op |-> "remove_entry_from_all_indices",
                         entry_id |-> entry_id, embedded |-> embedded, out |-> after.out]
           /\ removed' = [n \in AllNames |->
                             IF after.out.value[n] # NoFile /\ after.out.value[n] # File(-1)
                             THEN removed[n] \cup {entry_id} ELSE removed[n]]
    /\ UNCHANGED <<call, lexVars, cache, searcher>>

NextAll ==
    \/ \E name \in AllNames, args \in AllCreateArgs : CreateIndex(name, args)
    \/ \E name \in AllNames : DeleteIndex(name)
    \/ \E name \in AllNames, embedded \in BOOLEAN, tokens \in 0..MaxCallTokens :
          RebuildWithNewSearcher(name, embedded, tokens)
    \/ \E order \in NameOrders, input \in AllInputs, embedded \in [AllNames -> BOOLEAN],
          tokens \in 0..MaxCallTokens :
          UpdateAllIndicesWithEntry(order, input, embedded, tokens)
    \/ \E order \in NameOrders, entry_id \in EntryIds, embedded \in [AllNames -> BOOLEAN] :
          RemoveEntryFromAllIndices(order, entry_id, embedded)
    \/ VecReturn

SpecAll == InitAll /\ [][NextAll]_vars

(***************************************************************************)
(* Searchers made with a model of the caller's                             *)
(***************************************************************************)

\* The model_name and dimensions a VectorSearcher is made with.
SearcherArgs ==
    { [model_name |-> None, dimensions |-> NoDims],
      [model_name |-> "titan-v2", dimensions |-> NoDims],
      [model_name |-> "nova", dimensions |-> 256],
      [model_name |-> "nova", dimensions |-> 512] }

NextModel ==
    \/ \E name \in IndexNames, args \in CreateArgs : CreateIndex(name, args)
    \/ \E name \in IndexNames : DeleteIndex(name)
    \/ \E name \in IndexNames, embedded \in BOOLEAN, tokens \in 0..MaxCallTokens :
          VectorRebuild(name, embedded, tokens)
    \/ \E name \in IndexNames, query \in Queries, top_k \in 1..MaxTopK, embedded \in BOOLEAN :
          VectorSearch(name, query, None, top_k, {}, embedded, "empty")
    \/ \E name \in IndexNames, args \in SearcherArgs :
          NewSearcher(name, args.model_name, args.dimensions)
    \/ VecReturn

SpecModel == Init /\ [][NextModel]_vars

(***************************************************************************)
(* BedrockEmbeddings.embed_texts: the worker pool                          *)
(***************************************************************************)

MaxTexts == 3          \* embed_texts is called with at most this many texts
MaxWorkers == 2        \* num_workers in 1..MaxWorkers

\* The texts of the chunks, by name, and the vector and the token count the
\* service returns for a text.
TextNames == {"t1", "t2"}
VectorOf(text) == <<"vector", text>>
TokensOf(text) == IF text = "t1" THEN 1 ELSE 2

\* results[idx] = future.result(): the key a result is stored under. idx is
\* the index the task was submitted with, completed the number of results
\* stored so far.
result_key_by_completion(idx, completed) == completed
result_key(idx, completed) == idx

\* A dict as a set of items; d[key] = value and d[key].
SetItem(dict, key, value) ==
    {item \in dict : item.key # key} \cup {[key |-> key, value |-> value]}
GetItem(dict, key) == (CHOOSE item \in dict : item.key = key).value
Keys(dict) == {item.key : item \in dict}

RECURSIVE SumTokens(_, _)
SumTokens(results, n) ==
    IF n = 0 THEN 0 ELSE GetItem(results, n - 1).tokens + SumTokens(results, n - 1)

\* The call has not come to an outcome yet.
Pending == [raised |-> "pending", value |-> <<>>]

InitEmbed == call = Idle /\ InitRest

\* embed_texts(texts) with no text returns at once; otherwise every text is
\* submitted with its index, and the pool runs num_workers tasks at a time.
EmbedTexts(texts, num_workers) ==
    /\ call = Idle
    /\ call' = IF texts = <<>>
               THEN [op |-> "embed_texts", texts |-> texts, num_workers |-> num_workers,
                     started |-> 0, running |-> {}, done |-> {}, order |-> <<>>, results |-> {},
                     out |-> Returned([embeddings |-> <<>>, total_tokens |-> 0])]
               ELSE [op |-> "embed_texts", texts |-> texts, num_workers |-> num_workers,
                     started |-> 0, running |-> {}, done |-> {}, order |-> <<>>, results |-> {},
                     out |-> Pending]
    /\ UNCHANGED <<lexVars, vecVars>>

\* A free worker takes the next submitted task.
StartTask ==
    /\ call.op = "embed_texts"
    /\ call.out.raised = Pending.raised
    /\ call.started < Len(call.texts)
    /\ Cardinality(call.running) < call.num_workers
    /\ call' = [call EXCEPT !.started = @ + 1, !.running = @ \cup {call.started}]
    /\ UNCHANGED <<lexVars, vecVars>>

\* _embed_text_with_tokens of a running task returns, or raises EmbeddingError.
FinishTask(idx, ok) ==
    /\ call.op = "embed_texts"
    /\ call.out.raised = Pending.raised
    /\ idx \in call.running
    /\ call' = [call EXCEPT !.running = @ \ {idx},
                            !.done = @ \cup {[key |-> idx, value |-> ok]}]
    /\ UNCHANGED <<lexVars, vecVars>>

\* The loop over as_completed takes a finished future that it has not had
\* yet: results[idx] = future.result(), which raises what the task raised.
\* order: the indices in the order the loop had them.
CollectResult(idx) ==
    /\ call.op = "embed_texts"
    /\ call.out.raised = Pending.raised
    /\ idx \in Keys(call.done)
    /\ idx \notin Range(call.order)
    /\ call' = IF GetItem(call.done, idx)
               THEN [call EXCEPT !.order = Append(@, idx),
                                 !.results =
                                     SetItem(@, result_key(idx, Len(call.order)),
                                             [vector |-> VectorOf(call.texts[idx + 1]),
                                              tokens |-> TokensOf(call.texts[idx + 1])])]
               ELSE [call EXCEPT !.out = Raised(EmbeddingError)]
    /\ UNCHANGED <<lexVars, vecVars>>

\* After the loop: embeddings = [results[i][0] for i in range(len(texts))],
\* which raises KeyError when a key is missing.
AssembleResults ==
    /\ call.op = "embed_texts"
    /\ call.out.raised = Pending.raised
    /\ Range(call.order) = 0..(Len(call.texts) - 1)
    /\ call' = [call EXCEPT !.out =
                   IF Keys(call.results) # 0..(Len(call.texts) - 1)
                   THEN Raised(KeyError)
                   ELSE Returned([embeddings |->
                                      [i \in 1..Len(call.texts) |->
                                          GetItem(call.results, i - 1).vector],
                                  total_tokens |->
                                      SumTokens(call.results, Len(call.texts))])]
    /\ UNCHANGED <<lexVars, vecVars>>

\* The caller has the outcome.
EmbedReturn ==
    /\ call.op = "embed_texts"
    /\ call.out.raised # Pending.raised
    /\ call' = Idle
    /\ UNCHANGED <<lexVars, vecVars>>

NextEmbed ==
    \/ \E texts \in SeqsUpTo(TextNames, MaxTexts), num_workers \in 1..MaxWorkers :
          EmbedTexts(texts, num_workers)
    \/ StartTask
    \/ \E idx \in 0..(MaxTexts - 1), ok \in BOOLEAN : FinishTask(idx, ok)
    \/ \E idx \in 0..(MaxTexts - 1) : CollectResult(idx)
    \/ AssembleResults
    \/ EmbedReturn

SpecEmbed == InitEmbed /\ [][NextEmbed]_vars

AddOrRemoveCalled ==
    vecOut.op \in {"add_entry_to_index", "remove_entry_from_index"}

\* C1 as claimed: after an add_entry_to_index or remove_entry_from_index call
\* on a named index, whether it returned or raised, the chunk_count of the
\* index's metadata, the length of its persisted chunk list and the number of
\* rows of its persisted vector artifact are equal.
C1_CountsAgree ==
    AddOrRemoveCalled =>
        LET n == vecOut.name
        IN  (indices[n] # NoFile /\ chunksFile[n] # NoFile /\ faissFile[n] # NoFile) =>
                /\ indices[n][1].chunk_count = Len(chunksFile[n][1])
                /\ Len(chunksFile[n][1]) = Len(faissFile[n][1])

\* C2 as claimed: a remove_entry_from_index(name, X) that succeeds leaves the
\* persisted chunk list without any chunk of X and with every other chunk in
\* its original order, and a search of that index made afterwards returns no
\* result for X (until something puts X in the index again).
C2_RemovedEntryNotFound ==
    [][ /\ (vecOut'.op = "remove_entry_from_index" /\ vecOut'.out.raised = None) =>
              /\ chunksFile[vecOut'.name] # NoFile
              /\ chunksFile'[vecOut'.name] =
                    File(SelectSeq(chunksFile[vecOut'.name][1],
                                   LAMBDA c : c.entry_id # vecOut'.entry_id))
        /\ (vecOut'.op = "search" /\ vecOut'.out.raised = None) =>
              \A i \in 1..Len(vecOut'.out.value) :
                  vecOut'.out.value[i].entry_id \notin removed'[vecOut'.name]
      ]_vars

SearchReturned == vecOut.op = "search" /\ vecOut.out.raised = None

\* The rows index.search retrieved that belong to chunks of entry_id, in the
\* index and chunk list the searcher worked on.
RetrievedOf(entry_id) ==
    {i \in 1..Len(vecOut.retrieved) :
        cache[vecOut.name][1].chunks[vecOut.retrieved[i].idx + 1].entry_id = entry_id}

\* C3: a VectorSearcher.search that returns gives at most one result per
\* entry_id, each with the highest similarity among the retrieved chunks of
\* that entry, in descending order of score, and at most top_k results.
C3_BestChunkPerEntry ==
    SearchReturned =>
        LET ret == vecOut.out.value
            index == cache[vecOut.name][1].index
        IN  /\ Len(ret) <= vecOut.top_k
            /\ \A i, j \in 1..Len(ret) : ret[i].entry_id = ret[j].entry_id => i = j
            /\ \A i \in 1..(Len(ret) - 1) : ret[i].score >= ret[i + 1].score
            /\ \A i \in 1..Len(ret) :
                  /\ RetrievedOf(ret[i].entry_id) # {}
                  /\ ret[i].score =
                        SetMax({Sim(vecOut.query, index[vecOut.retrieved[h].idx + 1]) :
                                   h \in RetrievedOf(ret[i].entry_id)})

C3_Witness ==
    /\ SearchReturned
    /\ vecOut.top_k = 2
    /\ Len(vecOut.out.value) = 2
    /\ vecOut.out.value[1].score > vecOut.out.value[2].score
    /\ \E g, h \in RetrievedOf(vecOut.out.value[1].entry_id) :
          /\ g < h
          /\ vecOut.retrieved[g].score > vecOut.retrieved[h].score
          /\ vecOut.out.value[1].score = vecOut.retrieved[g].score

(***************************************************************************)
(* create_index, delete_index and what they leave on disk                  *)
(***************************************************************************)

\* The dimensions a model supports, read off EMBEDDING_MODELS: the fixed
\* width of titan-v2, the list of nova.
SupportedBy(model_name) ==
    IF model_name = "titan-v2" THEN {1024}
    ELSE IF model_name = "nova" THEN {256, 512, 1024, 3072} ELSE {}

DefaultOf(model_name) == 1024

Unsupported(args) ==
    args.dimensions # NoDims /\ args.dimensions \notin SupportedBy(args.model_name)

\* C11: create_index raises when the name is already registered and when the
\* requested dimensions are not supported by the model (a fixed-dimension
\* model accepts only its own width, a configurable one only a value of its
\* list); a create_index that returns without a dimensions override records
\* the model's default; a create_index that raises leaves the registry, the
\* metadata file, the chunk list and the vector artifact as they were.
C11_CreateFailsCleanly ==
    [][ (vecOut = Idle /\ vecOut'.op = "create_index") =>
          LET name == vecOut'.name
              args == vecOut'.args
          IN  /\ (indices[name] # NoFile \/ Unsupported(args)) => vecOut'.out.raised # None
              /\ vecOut'.out.raised = None =>
                    /\ indices'[name] = File(vecOut'.out.value)
                    /\ vecOut'.out.value.dimensions =
                          (IF args.dimensions = NoDims THEN DefaultOf(args.model_name)
                           ELSE args.dimensions)
              /\ vecOut'.out.raised # None =>
                    /\ indices' = indices
                    /\ metaFile' = metaFile
                    /\ chunksFile' = chunksFile
                    /\ faissFile' = faissFile
      ]_vars

\* A create_index with valid arguments was refused because the name is
\* registered, for an index that holds chunks.
C11_Witness ==
    /\ vecOut.op = "create_index"
    /\ vecOut.out.raised = ValueError
    /\ ~Unsupported(vecOut.args)
    /\ vecOut.args.model_name \in ModelNames
    /\ indices[vecOut.name] # NoFile
    /\ indices[vecOut.name][1].chunk_count > 0
    /\ chunksFile[vecOut.name] # NoFile

CreateReturned == vecOut.op = "create_index" /\ vecOut.out.raised = None

\* C12 as claimed: right after a create_index(name, ...) that returns, the
\* index has a metadata file with chunk_count 0, an empty vector artifact and
\* an empty chunk list, so that load_index_data(name) returns and a first
\* add_entry_to_index(name, ...) whose embedding calls succeed returns too,
\* with no rebuild before it.
C12_CreatedIndexIsUsable ==
    CreateReturned =>
        LET name == vecOut.name
        IN  /\ metaFile[name] # NoFile
            /\ metaFile[name][1].chunk_count = 0
            /\ faissFile[name] = File(<<>>)
            /\ chunksFile[name] = File(<<>>)
            /\ load_index_data(indices, chunksFile, faissFile, name).raised = None
            /\ \A input \in AddInputs :
                  add_entry_to_index(indices, metaFile, chunksFile, faissFile, name,
                                     input.key, input.text, TRUE, 0).out.raised = None

(***************************************************************************)
(* add_entry_to_index and remove_entry_from_index                          *)
(***************************************************************************)

\* C13 as claimed: add_entry_to_index on a registered index with an empty or
\* whitespace-only searchable text raises nothing, returns chunks 0 and
\* tokens 0 (cost is tokens times the price) and leaves the vector artifact,
\* the chunk list and the metadata as they were.
C13_EmptyTextIsNoOp ==
    [][ (/\ vecOut = Idle
         /\ vecOut'.op = "add_entry_to_index"
         /\ vecOut'.text \in {EmptyText, BlankText}
         /\ indices[vecOut'.name] # NoFile) =>
          /\ vecOut'.out = Returned([chunks |-> 0, tokens |-> 0, cost |-> 0])
          /\ indices' = indices
          /\ metaFile' = metaFile
          /\ chunksFile' = chunksFile
          /\ faissFile' = faissFile
      ]_vars

\* The chunks of entry_id in a chunk list.
ChunksOfEntry(chunks, entry_id) == SelectSeq(chunks, LAMBDA c : c.entry_id = entry_id)

SameAsSingle(single, name) ==
    /\ indices'[name] = single.indices[name]
    /\ metaFile'[name] = single.metaFile[name]
    /\ chunksFile'[name] = single.chunksFile[name]
    /\ faissFile'[name] = single.faissFile[name]

UntouchedIndex(name) ==
    /\ indices'[name] = indices[name]
    /\ metaFile'[name] = metaFile[name]
    /\ chunksFile'[name] = chunksFile[name]
    /\ faissFile'[name] = faissFile[name]

\* C15: update_all_indices_with_entry and remove_entry_from_all_indices
\* return, with one outcome for every registered index and none for the
\* others; the outcome of an index and what is persisted for it are those of
\* the single-index operation on that index alone: its stats or removed
\* count, or an error record or -1 when it raises, whatever the operation
\* did on the other indices.
C15_EveryIndexGetsItsOutcome ==
    [][ /\ (vecOut = Idle /\ vecOut'.op = "update_all_indices_with_entry") =>
            /\ vecOut'.out.raised = None
            /\ \A name \in AllNames :
                  IF indices[name] = NoFile
                  THEN vecOut'.out.value[name] = NoFile /\ UntouchedIndex(name)
                  ELSE LET single == add_entry_to_index(
                                         indices, metaFile, chunksFile, faissFile, name,
                                         vecOut'.input.key, vecOut'.input.text,
                                         vecOut'.embedded[name], vecOut'.tokens)
                       IN  /\ SameAsSingle(single, name)
                           /\ vecOut'.out.value[name] # NoFile
                           /\ IF single.out.raised # None
                              THEN vecOut'.out.value[name][1] = [error |-> single.out.raised]
                              ELSE vecOut'.out.value[name][1] = single.out.value
        /\ (vecOut = Idle /\ vecOut'.op = "remove_entry_from_all_indices") =>
            /\ vecOut'.out.raised = None
            /\ \A name \in AllNames :
                  IF indices[name] = NoFile
                  THEN vecOut'.out.value[name] = NoFile /\ UntouchedIndex(name)
                  ELSE LET single == remove_entry_from_index(
                                         indices, metaFile, chunksFile, faissFile, name,
                                         vecOut'.entry_id, vecOut'.embedded[name])
                       IN  /\ SameAsSingle(single, name)
                           /\ vecOut'.out.value[name] # NoFile
                           /\ IF single.out.raised # None
                              THEN vecOut'.out.value[name][1] = -1
                              ELSE vecOut'.out.value[name][1] = single.out.value
      ]_vars

\* The operation on all indices failed on one index (its chunk list is as
\* long as its chunk_count says, so nothing was added to it) and added a
\* chunk to the other.
C15_Witness ==
    /\ vecOut.op = "update_all_indices_with_entry"
    /\ \E failed \in AllNames, done \in AllNames :
          /\ indices[failed] # NoFile
          /\ vecOut.out.value[failed] = File([error |-> EmbeddingError])
          /\ chunksFile[failed] # NoFile
          /\ Len(chunksFile[failed][1]) = 1
          /\ vecOut.out.value[done] # NoFile
          /\ "chunks" \in DOMAIN vecOut.out.value[done][1]
          /\ vecOut.out.value[done][1].chunks = 1
          /\ Len(chunksFile[done][1]) = 2

\* C16: delete_index on a registered name returns and leaves no registry
\* entry, metadata file, vector artifact or chunk list of that name; then
\* index_exists is false, load_index_data raises NamedIndexNotFoundError and
\* create_index with supported arguments returns. On an unregistered name it
\* raises NamedIndexNotFoundError and the registry and the files stay as
\* they are.
C16_DeleteRemovesEverything ==
    [][ (vecOut = Idle /\ vecOut'.op = "delete_index") =>
            LET name == vecOut'.name
            IN  IF indices[name] # NoFile
                THEN /\ vecOut'.out.raised = None
                     /\ indices'[name] = NoFile
                     /\ metaFile'[name] = NoFile
                     /\ faissFile'[name] = NoFile
                     /\ chunksFile'[name] = NoFile
                     /\ ~index_exists(indices', name)
                     /\ load_index_data(indices', chunksFile', faissFile', name).raised
                            = NamedIndexNotFoundError
                     /\ \A args \in CreateArgs :
                           (args.model_name \in ModelNames /\ ~Unsupported(args)) =>
                               create_index(indices', metaFile', chunksFile', faissFile',
                                            name, args).out.raised = None
                ELSE /\ vecOut'.out.raised = NamedIndexNotFoundError
                     /\ UNCHANGED <<indices, metaFile, chunksFile, faissFile>>
      ]_vars

\* An index that a searcher had loaded with its chunks has been deleted.
C16_Witness ==
    /\ vecOut.op = "delete_index"
    /\ vecOut.out.raised = None
    /\ cache[vecOut.name] # NoFile
    /\ cache[vecOut.name][1].chunks # <<>>
    /\ indices[vecOut.name] = NoFile
    /\ chunksFile[vecOut.name] = NoFile

\* The configuration of a registry entry.
ConfigOf(metadata) ==
    <<metadata.embedding_model, metadata.dimensions, metadata.chunk_size,
      metadata.chunk_overlap>>

\* C17: the entry a new registry object reads for an index has the model,
\* dimensions, chunk_size and chunk_overlap the index was created with: a
\* create_index that returns leaves an entry with the configuration of its
\* arguments, no later step changes the configuration of a registered index,
\* and only delete_index unregisters it.
C17_ConfigSurvivesReload ==
    [][ \A name \in IndexNames :
           /\ (vecOut = Idle /\ vecOut'.op = "create_index" /\ vecOut'.name = name
                 /\ vecOut'.out.raised = None) =>
                  /\ get_index(indices', name).raised = None
                  /\ ConfigOf(get_index(indices', name).value)
                       = <<ModelId(vecOut'.args.model_name),
                           IF vecOut'.args.dimensions = NoDims
                           THEN DefaultOf(vecOut'.args.model_name)
                           ELSE vecOut'.args.dimensions,
                           vecOut'.args.chunk_size, vecOut'.args.chunk_overlap>>
           /\ indices[name] # NoFile =>
                  /\ get_index(indices, name).raised = None
                  /\ IF vecOut'.op = "delete_index" /\ vecOut'.out.raised = None
                     THEN TRUE
                     ELSE /\ get_index(indices', name).raised = None
                          /\ ConfigOf(get_index(indices', name).value)
                               = ConfigOf(get_index(indices, name).value)
      ]_vars

\* An index created with nova, 256 dimensions and a chunker of 200 words
\* still has that configuration after chunks were added to it and removed.
C17_Witness ==
    /\ vecOut.op = "remove_entry_from_index"
    /\ vecOut.out.raised = None
    /\ vecOut.out.value > 0
    /\ get_index(indices, vecOut.name).raised = None
    /\ ConfigOf(get_index(indices, vecOut.name).value) = <<ModelId("nova"), 256, 200, 0>>
    /\ get_index(indices, vecOut.name).value.chunk_count > 0
    /\ get_index(indices, vecOut.name).value.total_tokens > 0

\* The searcher of the call was made with a model, or with dimensions, that
\* the index was not built with.
ModelMismatch(name) ==
    /\ indices[name] # NoFile
    /\ searcher[name].model_name # None
    /\ \/ ModelId(searcher[name].model_name) # indices[name][1].embedding_model
       \/ /\ searcher[name].dimensions # NoDims
          /\ searcher[name].dimensions # indices[name][1].dimensions

\* C18: a search on a named index by a searcher that was made with another
\* embedding model or other dimensions than the index was built with never
\* returns results: it raises ModelMismatchError, unless the index could
\* not be loaded or the embedding call failed.
C18_MismatchIsRaised ==
    (vecOut.op = "search" /\ ModelMismatch(vecOut.name)) =>
        vecOut.out.raised \in {ModelMismatchError, NamedIndexNotFoundError, EmbeddingError}

\* The ids of the entries of a collection that have searchable text.
EntriesWithText(t) ==
    {k[2] : k \in {k \in KeysOf(t) : collection[k] # Absent /\ collection[k] # EmptyText}}

\* C19: when rebuild_index of a collection has returned, the persisted index
\* of the collection holds one document for every entry of the collection
\* that has searchable text and no other document (none of a deleted entry),
\* and the count returned is the number of these entries.
C19_IndexIsSnapshot ==
    (lexOut.op = "rebuild_index" /\ lexOut.out.raised = None) =>
        LET corpus == lexIndex[lexOut.entry_type].corpus
        IN  /\ lexOut.out.value = Cardinality(EntriesWithText(lexOut.entry_type))
            /\ Len(corpus) = Cardinality(EntriesWithText(lexOut.entry_type))
            /\ {corpus[i].id : i \in 1..Len(corpus)} = EntriesWithText(lexOut.entry_type)

PersistedAs(after, name) ==
    /\ after.indices[name] = indices[name]
    /\ after.metaFile[name] = metaFile[name]
    /\ after.chunksFile[name] = chunksFile[name]
    /\ after.faissFile[name] = faissFile[name]

\* C21: a call of add_entry_to_index, remove_entry_from_index or rebuild_index
\* that raises EmbeddingError leaves the registry entry, the metadata file,
\* the chunk list and the vector artifact as they were; and whenever such a
\* call embeds chunks (it returns having added chunks, removed some of the
\* chunks, or rebuilt with chunks), the same call with a failing embedding
\* call raises EmbeddingError and persists nothing.
C21_EmbeddingFailureLeavesIndex ==
    [][ (vecOut = Idle /\ vecOut'.op \in {"add_entry_to_index", "remove_entry_from_index",
                                          "rebuild_index"}) =>
            LET name == vecOut'.name
                embeds ==
                    /\ vecOut'.out.raised = None
                    /\ IF vecOut'.op = "remove_entry_from_index"
                       THEN vecOut'.out.value > 0 /\ chunksFile'[name][1] # <<>>
                       ELSE vecOut'.out.value.chunks > 0
                failing ==
                    IF vecOut'.op = "add_entry_to_index"
                    THEN LET key == CHOOSE k \in EntryKeys : k[2] = vecOut'.entry_id
                         IN  add_entry_to_index(indices, metaFile, chunksFile, faissFile,
                                                name, key, vecOut'.text, FALSE, 0)
                    ELSE IF vecOut'.op = "remove_entry_from_index"
                    THEN remove_entry_from_index(indices, metaFile, chunksFile, faissFile,
                                                 name, vecOut'.entry_id, FALSE)
                    ELSE vector_rebuild_index(collection, registryOk, indices, metaFile,
                                              chunksFile, faissFile, cache[name],
                                              searcher[name], name, FALSE, 0)
            IN  /\ vecOut'.out.raised = EmbeddingError =>
                      UNCHANGED <<indices, metaFile, chunksFile, faissFile>>
                /\ embeds => /\ failing.out.raised = EmbeddingError
                             /\ PersistedAs(failing, name)
      ]_vars

\* An add that raised EmbeddingError on an index that holds a chunk and has
\* counted tokens.
C21_Witness ==
    /\ vecOut.op = "add_entry_to_index"
    /\ vecOut.out.raised = EmbeddingError
    /\ chunksFile[vecOut.name] # NoFile
    /\ Len(chunksFile[vecOut.name][1]) = 1
    /\ indices[vecOut.name] # NoFile
    /\ indices[vecOut.name][1].chunk_count = 1
    /\ indices[vecOut.name][1].total_tokens > 0

\* C22: when embed_texts returns, the result has one embedding for each text
\* and element i is the embedding of texts[i], and the token total is the sum
\* over the texts, in whatever order the tasks finished and were collected;
\* the call ends in no other way than by returning or raising the
\* EmbeddingError of a task.
C22_ResultsInInputOrder ==
    (call.op = "embed_texts" /\ call.out.raised # Pending.raised) =>
        /\ call.out.raised \in {None, EmbeddingError}
        /\ call.out.raised = None =>
              /\ Len(call.out.value.embeddings) = Len(call.texts)
              /\ \A i \in 1..Len(call.texts) :
                    call.out.value.embeddings[i] = VectorOf(call.texts[i])
              /\ call.out.value.total_tokens
                    = SumTokens({[key |-> i - 1, value |-> [tokens |-> TokensOf(call.texts[i])]]
                                   : i \in 1..Len(call.texts)}, Len(call.texts))

\* Three texts were embedded by two workers; the last was collected first and
\* the first last, and the texts are not all the same.
C22_Witness ==
    /\ call.op = "embed_texts"
    /\ call.out.raised = None
    /\ call.texts = <<"t1", "t2", "t2">>
    /\ call.num_workers = 2
    /\ call.order = <<1, 2, 0>>

\* The chunks add_entry_to_index cuts from the entries ids of a collection,
\* with the chunker the index is configured with.
RECURSIVE ConfiguredChunks(_, _, _)
ConfiguredChunks(cfg, t, ids) ==
    IF ids = <<>> THEN <<>>
    ELSE entry_chunks(cfg, collection[<<t, Head(ids)>>], Head(ids), t)
         \o ConfiguredChunks(cfg, t, Tail(ids))

ChunksOfCollections(name) ==
    LET cfg == [chunk_size |-> indices[name][1].chunk_size,
                overlap |-> indices[name][1].chunk_overlap,
                min_chunk_size |-> MIN_CHUNK_SIZE]
    IN  ConfiguredChunks(cfg, PAPER, list_entries(collection, registryOk, PAPER).value)
        \o ConfiguredChunks(cfg, BOOK, list_entries(collection, registryOk, BOOK).value)
        \o ConfiguredChunks(cfg, MEDIA, list_entries(collection, registryOk, MEDIA).value)

\* C23: when rebuild_index on a registered named index has returned, the
\* persisted chunk list (empty when there is none) holds exactly the chunks
\* of the entries now in the three collections, cut with the chunk_size and
\* chunk_overlap of the index, and chunk_count is its length.
C23_RebuildIsReAddingAll ==
    (vecOut.op = "rebuild_index" /\ vecOut.out.raised = None
       /\ indices[vecOut.name] # NoFile) =>
        LET persisted == IF chunksFile[vecOut.name] = NoFile THEN <<>>
                         ELSE chunksFile[vecOut.name][1]
        IN  /\ Len(persisted) = Len(ChunksOfCollections(vecOut.name))
            /\ Range(persisted) = Range(ChunksOfCollections(vecOut.name))
            /\ indices[vecOut.name][1].chunk_count = Len(persisted)

\* The line (1-based) of the w-th word of a text.
RECURSIVE LineOfWordFrom(_, _, _)
LineOfWordFrom(text, w, l) ==
    IF w <= text[l].nwords THEN l ELSE LineOfWordFrom(text, w - text[l].nwords, l + 1)

LineOfWord(text, w) == LineOfWordFrom(text, w, 1)

\* The number of the most recent [PAGE:N] marker at or before line l of a text
\* (NoPage before the first marker).
RECURSIVE MostRecentMarker(_, _)
MostRecentMarker(text, l) ==
    IF l = 0 THEN NoPage
    ELSE IF text[l].last_page # NoPage THEN text[l].last_page
    ELSE MostRecentMarker(text, l - 1)

PagesInForce(text, chunk) ==
    {MostRecentMarker(text, LineOfWord(text, w)) : w \in Range(chunk.text)} \ {NoPage}

\* C24: of every chunk chunk_text returns, page_start and page_end are the
\* least and the greatest page in force over the chunk's words, the page in
\* force for a word being the number of the most recent [PAGE:N] marker at or
\* before its line; both are null exactly when no word of the chunk has a
\* page; page_start <= page_end and line_start <= line_end.
C24_PageSpanIsMinMax ==
    ChunkCalled =>
        \A i \in 1..Len(call.ret) :
            LET chunk == call.ret[i]
                pages == PagesInForce(call.text, chunk)
            IN  /\ pages = {} => (chunk.page_start = NoPage /\ chunk.page_end = NoPage)
                /\ pages # {} => (chunk.page_start = SetMin(pages)
                                    /\ chunk.page_end = SetMax(pages))
                /\ chunk.page_start <= chunk.page_end
                /\ chunk.line_start <= chunk.line_end

(***************************************************************************)
(* BookRegistry: chapters of a book                                        *)
(***************************************************************************)

EntryNotFoundError == "EntryNotFoundError"
EntryExistsError == "EntryExistsError"

\* Book ids are character strings. "s", "t", "x" stand for the letters of a
\* surname and "0" for the four digits of the year; the suffix is written out.
\* BookIdOrder holds the ids in use in the order sorted() gives them.
BookIdOrder ==
    << <<"s", "0">>,
       <<"s", "0", "a">>,
       <<"s", "0", "c", "h", "1">>,
       <<"s", "0", "c", "h", "1", "2">>,
       <<"s", "0", "c", "h", "2">>,
       <<"t", "0", "c", "h", "1">>,
       <<"x", "s", "0", "c", "h", "1">> >>

BookIds == Range(BookIdOrder)

\* The values of a book's fields other than its id.
BookData == {"v1", "v2"}

\* The basenames delete_chapters is called with.
Basenames ==
    { <<"s", "0">>, <<"t", "0">>, <<"u", "0">>, <<"0">>, <<"s", "0", "c", "h", "1">> }

DigitValue(c) ==
    IF c = "0" THEN 0 ELSE IF c = "1" THEN 1 ELSE IF c = "2" THEN 2 ELSE -1

\* \d
IsDigit(c) == DigitValue(c) >= 0

\* int(match.group(1))
RECURSIVE IntOf(_)
IntOf(digits) ==
    IF digits = <<>> THEN 0
    ELSE 10 * IntOf(SubSeq(digits, 1, Len(digits) - 1)) + DigitValue(digits[Len(digits)])

\* Whether the pattern "basename ch (\d+) $" matches book_id from position
\* start (0-based) on.
MatchesAt(book_id, basename, start) ==
    LET n == start + Len(basename)
    IN  /\ Len(book_id) >= n + 3
        /\ SubSeq(book_id, start + 1, n) = basename
        /\ book_id[n + 1] = "c"
        /\ book_id[n + 2] = "h"
        /\ \A i \in (n + 3)..Len(book_id) : IsDigit(book_id[i])

\* pattern.search(book.id): the pattern without its "^".
chapter_search(book_id, basename) ==
    \E start \in 0..Len(book_id) : MatchesAt(book_id, basename, start)

\* pattern.match(book.id) with pattern "^" + re.escape(basename) + "ch(\d+)$".
chapter_match(book_id, basename) == MatchesAt(book_id, basename, 0)

\* The number the match captures.
chapter_num(book_id, basename) ==
    IntOf(SubSeq(book_id, Len(basename) + 3, Len(book_id)))

\* BaseRegistry.list_entries: the ids of the registry, sorted.
list_books(books) == SelectSeq(BookIdOrder, LAMBDA id : books[id] # Absent)

\* sorted(chapters, key=lambda x: x[0]): stable, by chapter number.
RECURSIVE SortedByNum(_, _)
SortedByNum(ids, basename) ==
    IF ids = <<>> THEN <<>>
    ELSE LET least == SetMin({chapter_num(ids[i], basename) : i \in 1..Len(ids)})
             k == SetMin({i \in 1..Len(ids) : chapter_num(ids[i], basename) = least})
         IN  <<ids[k]>>
             \o SortedByNum(SubSeq(ids, 1, k - 1) \o SubSeq(ids, k + 1, Len(ids)), basename)

\* BookRegistry.find_chapters
find_chapters(books, basename) ==
    SortedByNum(SelectSeq(list_books(books), LAMBDA id : chapter_match(id, basename)),
                basename)

\* BaseRegistry.add_entry
add_book(books, book_id, data) ==
    IF books[book_id] # Absent
    THEN [out |-> Raised(EntryExistsError), books |-> books]
    ELSE [out |-> Returned(None), books |-> [books EXCEPT ![book_id] = data]]

\* BaseRegistry.delete_entry
delete_book(books, book_id) ==
    IF books[book_id] = Absent
    THEN [out |-> Raised(EntryNotFoundError), books |-> books]
    ELSE [out |-> Returned(None), books |-> [books EXCEPT ![book_id] = Absent]]

\* for chapter in chapters: self.delete_book(chapter.id)
RECURSIVE DeleteChaptersLoop(_, _, _)
DeleteChaptersLoop(books, chapters, k) ==
    IF k > Len(chapters) THEN [out |-> Returned(Len(chapters)), books |-> books]
    ELSE LET r == delete_book(books, chapters[k])
         IN  IF r.out.raised # None THEN r
             ELSE DeleteChaptersLoop(r.books, chapters, k + 1)

\* BookRegistry.delete_chapters
delete_chapters(books, basename) ==
    LET chapters == find_chapters(books, basename)
    IN  IF chapters = <<>>
        THEN [out |-> Raised(EntryNotFoundError), books |-> books]
        ELSE DeleteChaptersLoop(books, chapters, 1)

\* The book registry starts empty (_ensure_registry writes {}).
InitBooks ==
    /\ call = Idle
    /\ collection = [id \in BookIds |-> Absent]
    /\ registryOk = <<>>
    /\ lexIndex = <<>>
    /\ lexOut = None
    /\ indices = <<>>
    /\ metaFile = <<>>
    /\ chunksFile = <<>>
    /\ faissFile = <<>>
    /\ cache = <<>>
    /\ searcher = <<>>
    /\ vecOut = None
    /\ removed = <<>>

booksUnchanged == UNCHANGED <<registryOk, lexIndex, lexOut, vecVars>>

AddBook(book_id, data) ==
    /\ \E r \in {add_book(collection, book_id, data)} :
          /\ call' = [op |-> "add_book", id |-> book_id, before |-> collection,
                   out |-> r.out]
          /\ collection' = r.books
    /\ booksUnchanged

DeleteBook(book_id) ==
    /\ \E r \in {delete_book(collection, book_id)} :
          /\ call' = [op |-> "delete_book", id |-> book_id, before |-> collection,
                   out |-> r.out]
          /\ collection' = r.books
    /\ booksUnchanged

DeleteChapters(basename) ==
    /\ \E r \in {delete_chapters(collection, basename)} :
          /\ call' = [op |-> "delete_chapters", id |-> basename, before |-> collection,
                   out |-> r.out]
          /\ collection' = r.books
    /\ booksUnchanged

NextBooks ==
    \/ \E book_id \in BookIds, data \in BookData : AddBook(book_id, data)
    \/ \E book_id \in BookIds : DeleteBook(book_id)
    \/ \E basename \in Basenames : DeleteChapters(basename)

SpecBooks == InitBooks /\ [][NextBooks]_vars

\* The ids that are basename followed by "ch" and one or more digits.
ChapterIdsOf(basename) ==
    {id \in BookIds :
        \E n \in 1..2 : \E digits \in [1..n -> {"0", "1", "2"}] :
            id = basename \o <<"c", "h">> \o digits}

\* C25: delete_chapters(basename) deletes every book whose id is basename
\* followed by ch and digits, and only those, returns how many it deleted and
\* leaves every other book as it was; when there is no such book it raises
\* EntryNotFoundError and the registry is unchanged.
C25_DeleteChaptersFrame ==
    call.op = "delete_chapters" =>
        LET chapters == {id \in ChapterIdsOf(call.id) : call.before[id] # Absent}
        IN  IF chapters = {}
            THEN /\ call.out.raised = EntryNotFoundError
                 /\ collection = call.before
            ELSE /\ call.out.raised = None
                 /\ call.out.value = Cardinality(chapters)
                 /\ \A id \in BookIds :
                        collection[id] = IF id \in chapters THEN Absent
                                         ELSE call.before[id]

C25_Witness ==
    /\ call.op = "delete_chapters"
    /\ call.id = <<"s", "0">>
    /\ call.out.raised = None
    /\ call.out.value = 3
    /\ collection[<<"s", "0">>] = "v1"
    /\ collection[<<"s", "0", "a">>] = "v2"
    /\ collection[<<"x", "s", "0", "c", "h", "1">>] = "v1"
    /\ collection[<<"t", "0", "c", "h", "1">>] = "v2"

\* The ids of the results a ranking of a corpus gives for a query: the top_k
\* best documents, those with a positive score, best first.
RankedIds(corpus, query, top_k) ==
    LET best == retrieve(corpus, query, Min(top_k, Len(corpus)))
        positive == SelectSeq(best, LAMBDA r : r.score > 0)
    IN  [i \in 1..Len(positive) |-> positive[i].entry_id]

C26_WitnessLoadFails ==
    /\ lexOut.op = "search"
    /\ lexOut.entry_id = None
    /\ lexOut.rebuilds = 1
    /\ ~lexOut.readable
    /\ lexOut.out.raised = ValueError
    /\ lexIndex[lexOut.entry_type].state = "saved"

(***************************************************************************)
(* TextChunker._create_chunks, one loop iteration at a time                *)
(***************************************************************************)

\* The texts the loop is run on: one line of 0..MaxLoopWords words, and a
\* text of two pages.
MaxLoopWords == 4

LoopTexts ==
    {<<Line(NoPage, NoSection, n)>> : n \in 0..MaxLoopWords}
    \cup {<<Line(1, NoSection, 1), Line(2, NoSection, 1)>>}

\* The most iterations the while loop is followed for: one more than the
\* words of the longest text.
MaxIterations == MaxLoopWords + 1

\* "Safety check for infinite loop": if start_idx <= 0: break
safety_check_negative_only(start_idx) == start_idx < 0
safety_check(start_idx) == start_idx <= 0

InLoop == "create_chunks"
LoopDone == "create_chunks returned"

\* chunk_text is called: the words are collected, the loop variables are set.
CreateChunksCall(cfg, text) ==
    /\ call = Idle
    /\ call' = [op |-> IF words_with_meta(annotate_lines(text)) = <<>> THEN LoopDone
                       ELSE InLoop,
                cfg |-> cfg, text |-> text,
                start_idx |-> 0, chunk_index |-> 0, chunks |-> <<>>]
    /\ UNCHANGED <<lexVars, vecVars>>

\* One evaluation of the loop condition and, when it holds, of the body.
WhileStep ==
    /\ call.op = InLoop
    /\ Len(call.chunks) < MaxIterations
    /\ \E words \in {words_with_meta(annotate_lines(call.text))} :
       \E chunk_words \in {Slice(words, call.start_idx,
                                 Min(call.start_idx + call.cfg.chunk_size, Len(words)))} :
          IF ~(call.start_idx < Len(words))
          THEN call' = [call EXCEPT !.op = LoopDone]
          ELSE IF Len(chunk_words) < call.cfg.min_chunk_size /\ call.chunks # <<>>
          THEN call' = [call EXCEPT !.op = LoopDone]
          ELSE call' = [call EXCEPT
                          !.chunks = Append(@, MakeChunk(chunk_words, "e", "paper",
                                                         call.chunk_index)),
                          !.start_idx = @ + WindowStep(call.cfg),
                          !.chunk_index = NextChunkIndex(@),
                          !.op = IF safety_check(call.start_idx + WindowStep(call.cfg))
                                 THEN LoopDone ELSE InLoop]
    /\ UNCHANGED <<lexVars, vecVars>>

\* return chunks
CreateChunksReturn ==
    /\ call.op = LoopDone
    /\ call' = Idle
    /\ UNCHANGED <<lexVars, vecVars>>

NextLoop ==
    \/ \E cfg \in ChunkerConfigs, text \in LoopTexts : CreateChunksCall(cfg, text)
    \/ WhileStep
    \/ CreateChunksReturn

SpecLoop == InitChunk /\ [][NextLoop]_vars

\* The loop is sequential code: an iteration that can be taken is taken.
SpecLoopFair == SpecLoop /\ WF_vars(WhileStep)

\* C27: every call of chunk_text returns, whatever the text and the
\* configuration, chunk_size <= overlap included: the loop is left, and what
\* it returns is what chunk_text gives.
C27_ChunkTextTerminates ==
    (call.op = InLoop) ~> (call.op = LoopDone /\ Len(call.chunks) < MaxIterations)

\* A call with overlap >= chunk_size on a text of several words has returned,
\* with the one chunk it cut before the window failed to advance.
C27_Witness ==
    /\ call.op = LoopDone
    /\ call.cfg.chunk_size <= call.cfg.overlap
    /\ WordCount(call.text) > call.cfg.chunk_size
    /\ Len(call.chunks) = 1
    /\ call.start_idx <= 0

\* C28: whenever an operation on the named indices has ended, every registered
\* name has a metadata file that holds the field values of its registry
\* entry, and no index directory exists for a name that is not registered.
C28_RegistryAgreesWithMetadata ==
    \A name \in IndexNames :
        IF indices[name] # NoFile
        THEN metaFile[name] = indices[name]
        ELSE ~index_dir_exists(metaFile, chunksFile, faissFile, name)

\* C29: whenever add_entry_to_index or remove_entry_from_index on a named
\* index has ended, no two chunks of the persisted chunk list have the same
\* entry_id and chunk_index.
C29_ChunkKeysUnique ==
    \A name \in IndexNames :
        (vecOut.op \in {"add_entry_to_index", "remove_entry_from_index"}
           /\ chunksFile[name] # NoFile) =>
            \A i, j \in 1..Len(chunksFile[name][1]) :
                (/\ chunksFile[name][1][i].entry_id = chunksFile[name][1][j].entry_id
                 /\ chunksFile[name][1][i].chunk_index = chunksFile[name][1][j].chunk_index)
                    => i = j

(***************************************************************************)
(* Searching one entry of an index with many chunks                        *)
(***************************************************************************)

\* A short paper a and a book c of ManyWords words.
ManyChunksCollection ==
    [k \in EntryKeys |-> IF k = <<PAPER, "a">> THEN ShortText
                         ELSE IF k = <<BOOK, "c">> THEN VeryLongText ELSE Absent]

InitFilter ==
    /\ call = Idle
    /\ collection = ManyChunksCollection
    /\ registryOk = [t \in EntryTypes |-> TRUE]
    /\ lexIndex = [t \in EntryTypes |-> NoIndex]
    /\ lexOut = Idle
    /\ indices = [n \in IndexNames |-> NoFile]
    /\ metaFile = [n \in IndexNames |-> NoFile]
    /\ chunksFile = [n \in IndexNames |-> NoFile]
    /\ faissFile = [n \in IndexNames |-> NoFile]
    /\ cache = [n \in IndexNames |-> NoFile]
    /\ searcher = [n \in IndexNames |-> VectorSearcherInit(None, NoDims)]
    /\ vecOut = Idle
    /\ removed = [n \in IndexNames |-> {}]

NextFilter ==
    \/ \E name \in IndexNames, args \in CreateArgs : CreateIndex(name, args)
    \/ \E name \in IndexNames, embedded \in BOOLEAN, tokens \in 0..MaxCallTokens :
          VectorRebuild(name, embedded, tokens)
    \/ \E name \in IndexNames, query \in Queries, entry_id \in {None, "a", "c"},
          top_k \in 1..MaxTopK, entry_types \in {{}, {BOOK}},
          embedded \in BOOLEAN, zero_k \in ZeroK :
          VectorSearch(name, query, entry_id, top_k, entry_types, embedded, zero_k)
    \/ VecReturn

SpecFilter == InitFilter /\ [][NextFilter]_vars

\* C30: a search with entry_id X, top_k >= 1 and no entry_types filter that
\* returns holds only results of X, and holds a result of X whenever the
\* index it searched has a chunk of X.
C30_EntryFilterFindsEntry ==
    (vecOut.op = "search" /\ vecOut.out.raised = None
       /\ vecOut.entry_id # None /\ vecOut.top_k >= 1 /\ vecOut.entry_types = {}) =>
        LET ret == vecOut.out.value
            chunks == cache[vecOut.name][1].chunks
        IN  /\ \A i \in 1..Len(ret) : ret[i].entry_id = vecOut.entry_id
            /\ (\E i \in 1..Len(chunks) : chunks[i].entry_id = vecOut.entry_id)
                  => \E i \in 1..Len(ret) : ret[i].entry_id = vecOut.entry_id

====
